---- MODULE Spec2Model ----
(***************************************************************************)
(* A model of redis-rust: the byte cursor (cursor.rs), the RESP codec      *)
(* (resp.rs), the command interpreter (commands.rs), the key-value store   *)
(* with its expiration sweeper (kv.rs) and the per-connection handler loop *)
(* (main.rs).                                                              *)
(*                                                                         *)
(* A byte is a one-character string; BadByte stands for a byte >= 0x80     *)
(* that occurs in no UTF-8 text.  Text (a Rust String) is a sequence of    *)
(* bytes.  Cursor positions are 0-based as in the source, sequences are    *)
(* 1-based as in TLA+.                                                     *)
(***************************************************************************)
EXTENDS Integers, Sequences, FiniteSets, TLC

----------------------------------------------------------------------------
(* Bytes and text                                                          *)

CR == "\r"
LF == "\n"
CRLF == <<CR, LF>>
BadByte == "0xFF"

Digits == <<"0", "1", "2", "3", "4", "5", "6", "7", "8", "9">>
DigitChars == {Digits[i] : i \in 1..10}
DigitVal(c) == (CHOOSE i \in 1..10 : Digits[i] = c) - 1

LowerCase == <<"a", "b", "c", "d", "e", "f", "g", "h", "i", "j", "k", "l", "m",
               "n", "o", "p", "q", "r", "s", "t", "u", "v", "w", "x", "y", "z">>
UpperCase == <<"A", "B", "C", "D", "E", "F", "G", "H", "I", "J", "K", "L", "M",
               "N", "O", "P", "Q", "R", "S", "T", "U", "V", "W", "X", "Y", "Z">>

\* u8::to_ascii_uppercase / to_ascii_lowercase on one byte
UpperByte(c) ==
    IF \E i \in 1..26 : LowerCase[i] = c
    THEN UpperCase[CHOOSE i \in 1..26 : LowerCase[i] = c]
    ELSE c
LowerByte(c) ==
    IF \E i \in 1..26 : UpperCase[i] = c
    THEN LowerCase[CHOOSE i \in 1..26 : UpperCase[i] = c]
    ELSE c

\* str::to_ascii_uppercase
to_ascii_uppercase(s) == [i \in 1..Len(s) |-> UpperByte(s[i])]
to_ascii_lowercase(s) == [i \in 1..Len(s) |-> LowerByte(s[i])]

\* String::from_utf8 / str::from_utf8 succeed: over the model's bytes (ASCII
\* and BadByte) the text is valid exactly when BadByte does not occur in it
Utf8Valid(s) == \A i \in 1..Len(s) : s[i] # BadByte

IsDigits(s) == Len(s) > 0 /\ \A i \in 1..Len(s) : s[i] \in DigitChars

RECURSIVE DigitsValue(_)
DigitsValue(s) ==
    IF s = <<>> THEN 0
    ELSE DigitsValue(SubSeq(s, 1, Len(s) - 1)) * 10 + DigitVal(s[Len(s)])

RECURSIVE StripZeros(_)
StripZeros(s) ==
    IF Len(s) > 1 /\ s[1] = "0" THEN StripZeros(Tail(s)) ELSE s

\* a <= b for two digit strings without leading zeros
DigitsLeq(a, b) ==
    \/ Len(a) < Len(b)
    \/ /\ Len(a) = Len(b)
       /\ \/ a = b
          \/ \E i \in 1..Len(a) :
                /\ SubSeq(a, 1, i - 1) = SubSeq(b, 1, i - 1)
                /\ DigitVal(a[i]) < DigitVal(b[i])

I64MaxDigits == <<"9", "2", "2", "3", "3", "7", "2", "0", "3", "6", "8", "5",
                  "4", "7", "7", "5", "8", "0", "7">>
I64MinDigits == <<"9", "2", "2", "3", "3", "7", "2", "0", "3", "6", "8", "5",
                  "4", "7", "7", "5", "8", "0", "8">>
U64MaxDigits == <<"1", "8", "4", "4", "6", "7", "4", "4", "0", "7", "3", "7",
                  "0", "9", "5", "5", "1", "6", "1", "5">>

\* str::parse::<i64>: an optional sign, at least one digit, nothing else, and
\* the value in range
ParseI64(s) ==
    LET signed == Len(s) > 0 /\ s[1] \in {"+", "-"}
        neg == Len(s) > 0 /\ s[1] = "-"
        body == IF signed THEN Tail(s) ELSE s
        mag == StripZeros(body)
    IN  IF IsDigits(body)
           /\ DigitsLeq(mag, IF neg THEN I64MinDigits ELSE I64MaxDigits)
        THEN [ok |-> TRUE,
              n |-> IF neg THEN 0 - DigitsValue(mag) ELSE DigitsValue(mag)]
        ELSE [ok |-> FALSE, n |-> 0]

\* str::parse::<u64>: an optional '+', at least one digit, nothing else, and
\* the value in range
ParseU64(s) ==
    LET body == IF Len(s) > 0 /\ s[1] = "+" THEN Tail(s) ELSE s
        mag == StripZeros(body)
    IN  IF IsDigits(body) /\ DigitsLeq(mag, U64MaxDigits)
        THEN [ok |-> TRUE, n |-> DigitsValue(mag)]
        ELSE [ok |-> FALSE, n |-> 0]

\* i64::to_string / usize::to_string
RECURSIVE NatToString(_)
NatToString(n) ==
    IF n < 10 THEN <<Digits[n + 1]>>
    ELSE NatToString(n \div 10) \o <<Digits[(n % 10) + 1]>>

IntToString(n) == IF n < 0 THEN <<"-">> \o NatToString(0 - n) ELSE NatToString(n)

Zeros(k) == [i \in 1..k |-> "0"]

----------------------------------------------------------------------------
(* f64 text.  A finite double is kept as (-1)^neg * m * 10^x with m not    *)
(* divisible by 10 (x = 0 when m = 0); within the model's digit counts     *)
(* every such decimal is the shortest text of its own f64.                 *)

FiniteF64(neg, m, x) == [cls |-> "fin", neg |-> neg, m |-> m, x |-> x]
InfF64(neg) == [cls |-> "inf", neg |-> neg, m |-> 0, x |-> 0]
NanF64 == [cls |-> "nan", neg |-> FALSE, m |-> 0, x |-> 0]

RECURSIVE NormF64(_, _, _)
NormF64(neg, m, x) ==
    IF m = 0 THEN FiniteF64(neg, 0, 0)
    ELSE IF m % 10 = 0 THEN NormF64(neg, m \div 10, x + 1)
    ELSE FiniteF64(neg, m, x)

IndexOf(s, chars) ==
    IF \E i \in 1..Len(s) : s[i] \in chars
    THEN CHOOSE i \in 1..Len(s) : s[i] \in chars /\ \A j \in 1..(i - 1) : s[j] \notin chars
    ELSE 0

\* str::parse::<f64>: [sign] (inf | infinity | nan, in any letter case), or
\* [sign] digits [. digits] [e [sign] digits] with a digit in the mantissa
ParseF64(s) ==
    LET signed == Len(s) > 0 /\ s[1] \in {"+", "-"}
        neg == Len(s) > 0 /\ s[1] = "-"
        body == IF signed THEN Tail(s) ELSE s
        low == to_ascii_lowercase(body)
        ePos == IndexOf(body, {"e", "E"})
        mant == IF ePos = 0 THEN body ELSE SubSeq(body, 1, ePos - 1)
        expo == IF ePos = 0 THEN <<>> ELSE SubSeq(body, ePos + 1, Len(body))
        dot == IndexOf(mant, {"."})
        int == IF dot = 0 THEN mant ELSE SubSeq(mant, 1, dot - 1)
        frac == IF dot = 0 THEN <<>> ELSE SubSeq(mant, dot + 1, Len(mant))
        expSigned == Len(expo) > 0 /\ expo[1] \in {"+", "-"}
        expDigits == IF expSigned THEN Tail(expo) ELSE expo
        expVal == IF ePos = 0 THEN 0
                  ELSE IF expo[1] = "-" THEN 0 - DigitsValue(expDigits)
                  ELSE DigitsValue(expDigits)
        allDigits(t) == \A i \in 1..Len(t) : t[i] \in DigitChars
    IN  IF low = <<"i", "n", "f">> \/ low = <<"i", "n", "f", "i", "n", "i", "t", "y">>
        THEN [ok |-> TRUE, d |-> InfF64(neg)]
        ELSE IF low = <<"n", "a", "n">>
        THEN [ok |-> TRUE, d |-> NanF64]
        ELSE IF /\ allDigits(int) /\ allDigits(frac)
                /\ Len(int) + Len(frac) > 0
                /\ (ePos # 0 => IsDigits(expDigits))
        THEN [ok |-> TRUE,
              d |-> NormF64(neg, DigitsValue(int \o frac), expVal - Len(frac))]
        ELSE [ok |-> FALSE, d |-> NanF64]

\* f64::to_string (Display): never an exponent, "NaN", "inf", "-inf"
F64ToString(d) ==
    LET ds == NatToString(d.m)
        k == 0 - d.x
        sign == IF d.neg THEN <<"-">> ELSE <<>>
    IN  IF d.cls = "nan" THEN <<"N", "a", "N">>
        ELSE IF d.cls = "inf" THEN sign \o <<"i", "n", "f">>
        ELSE IF d.x >= 0 THEN sign \o ds \o Zeros(d.x)
        ELSE IF Len(ds) > k
        THEN sign \o SubSeq(ds, 1, Len(ds) - k) \o <<".">>
                  \o SubSeq(ds, Len(ds) - k + 1, Len(ds))
        ELSE sign \o <<"0", ".">> \o Zeros(k - Len(ds)) \o ds

----------------------------------------------------------------------------
(* cursor.rs: the cursor is (input, position); every operation returns its *)
(* outcome and the position it leaves.  kind is "Ok", "UnexpectedEOF",     *)
(* "InvalidInput", or "Panic" when the call does not return.               *)

Ok(v, p) == [kind |-> "Ok", val |-> v, pos |-> p]
Err(k, p) == [kind |-> k, val |-> <<>>, pos |-> p]

\* a read that moves the position on by n even when it fails
ReadAdvancing(input, position, n) ==
    IF n < 0
    THEN IF position + n >= 0
         THEN Err("Panic", position)
         ELSE Err("UnexpectedEOF", position)
    ELSE IF position + n > Len(input)
    THEN Err("UnexpectedEOF", position + n)
    ELSE Ok(SubSeq(input, position + 1, position + n), position + n)

\* Cursor::read(n).  A negative n stands for the usize that `len as usize`
\* makes of it, 2^64 + n: position + n then wraps around when position + n
\* >= 0 (an overflow panic in a debug build, and in a release build a slice
\* whose end lies before its start, which panics as well), and is a huge
\* in-range sum otherwise.
Read(input, position, n) ==
    IF n < 0
    THEN IF position + n >= 0
         THEN Err("Panic", position)
         ELSE Err("UnexpectedEOF", position)
    ELSE IF position + n > Len(input)
    THEN Err("UnexpectedEOF", position)
    ELSE Ok(SubSeq(input, position + 1, position + n), position + n)

\* Cursor::read_byte
ReadByte(input, position) ==
    IF position >= Len(input)
    THEN Err("UnexpectedEOF", position)
    ELSE Ok(input[position + 1], position + 1)

\* a read_line that restores the position when it finds no terminator
ReadLineRestoring(input, position) ==
    LET hits == {p \in position..(Len(input) - 2) :
                    input[p + 1] = CR /\ input[p + 2] = LF}
        at == CHOOSE p \in hits : \A q \in hits : p <= q
    IN  IF Len(input) = 0 THEN Err("Panic", position)
        ELSE IF hits # {}
        THEN Ok(SubSeq(input, position + 1, at), at + 2)
        ELSE Err("UnexpectedEOF", position)

\* Cursor::read_line.  input.len() - 1 underflows on an empty buffer: an
\* overflow panic in a debug build, and in a release build a loop that
\* indexes past the end of the buffer, which panics as well.
ReadLine(input, position) ==
    LET last == Len(input) - 1
        hits == {p \in position..(last - 1) :
                    input[p + 1] = CR /\ input[p + 2] = LF}
        at == CHOOSE p \in hits : \A q \in hits : p <= q
    IN  IF Len(input) = 0 THEN Err("Panic", position)
        ELSE IF hits # {}
        THEN Ok(SubSeq(input, position + 1, at), at + 2)
        ELSE Err("UnexpectedEOF", IF position < last THEN last ELSE position)

\* String::from_utf8 of the line read
StringOf(line) ==
    IF line.kind # "Ok" THEN line
    ELSE IF Utf8Valid(line.val) THEN line
    ELSE Err("InvalidInput", line.pos)

\* Cursor::read_string
ReadString(input, position) == StringOf(ReadLine(input, position))

\* str::from_utf8 and parse::<i64> of the line read
IntegerOf(line, integer) ==
    IF line.kind # "Ok" THEN line
    ELSE IF Utf8Valid(line.val) /\ integer.ok THEN Ok(integer.n, line.pos)
    ELSE Err("InvalidInput", line.pos)

IntegerOfLine(line) == IntegerOf(line, ParseI64(line.val))

\* Cursor::read_integer
ReadInteger(input, position) == IntegerOfLine(ReadLine(input, position))

----------------------------------------------------------------------------
(* resp.rs: RespValue and its codec                                        *)

SimpleString(s) == [t |-> "SimpleString", s |-> s]
Error(s) == [t |-> "Error", s |-> s]
Integer(n) == [t |-> "Integer", n |-> n]
BulkString(s) == [t |-> "BulkString", s |-> s]
NullBulkString == [t |-> "NullBulkString"]
Array(items) == [t |-> "Array", items |-> items]
Null == [t |-> "Null"]
True == [t |-> "True"]
False == [t |-> "False"]
Double(d) == [t |-> "Double", d |-> d]
PositiveInfinity == [t |-> "PositiveInfinity"]
NegativeInfinity == [t |-> "NegativeInfinity"]
NaN == [t |-> "NaN"]
BigNumber(s) == [t |-> "BigNumber", s |-> s]
BulkError(s) == [t |-> "BulkError", s |-> s]
VerbatimString(e, s) == [t |-> "VerbatimString", e |-> e, s |-> s]
Map(entries) == [t |-> "Map", items |-> entries]
Set(items) == [t |-> "Set", items |-> items]

\* RespValue::as_bytes
RECURSIVE as_bytes(_)
RECURSIVE ConcatBytes(_)
ConcatBytes(values) ==
    IF values = <<>> THEN <<>>
    ELSE as_bytes(Head(values)) \o ConcatBytes(Tail(values))

RECURSIVE ConcatEntries(_)
ConcatEntries(entries) ==
    IF entries = <<>> THEN <<>>
    ELSE as_bytes(Head(entries)[1]) \o as_bytes(Head(entries)[2])
            \o ConcatEntries(Tail(entries))

\* a length that leaves out the tag and the colon
VerbatimLenOfData(encoding, string) == Len(string)

\* the len of the VerbatimString arm
VerbatimLen(encoding, string) == Len(encoding) + Len(string) + 1

as_bytes(v) ==
    CASE v.t = "Array" ->
            <<"*">> \o NatToString(Len(v.items)) \o CRLF \o ConcatBytes(v.items)
      [] v.t = "BigNumber" -> <<"(">> \o v.s \o CRLF
      [] v.t = "BulkError" ->
            <<"!">> \o NatToString(Len(v.s)) \o CRLF \o v.s \o CRLF
      [] v.t = "BulkString" ->
            <<"$">> \o NatToString(Len(v.s)) \o CRLF \o v.s \o CRLF
      [] v.t = "Double" -> <<",">> \o F64ToString(v.d) \o CRLF
      [] v.t = "Error" -> <<"-">> \o v.s \o CRLF
      [] v.t = "False" -> <<"#", "f">> \o CRLF
      [] v.t = "Integer" -> <<":">> \o IntToString(v.n) \o CRLF
      [] v.t = "Map" ->
            <<"%">> \o NatToString(Len(v.items)) \o CRLF \o ConcatEntries(v.items)
      [] v.t = "NaN" -> <<",", "n", "a", "n">> \o CRLF
      [] v.t = "NegativeInfinity" -> <<",", "-", "i", "n", "f">> \o CRLF
      [] v.t = "Null" -> <<"_">> \o CRLF
      [] v.t = "PositiveInfinity" -> <<",", "i", "n", "f">> \o CRLF
      [] v.t = "Set" ->
            <<"~">> \o NatToString(Len(v.items)) \o CRLF \o ConcatBytes(v.items)
      [] v.t = "SimpleString" -> <<"+">> \o v.s \o CRLF
      [] v.t = "True" -> <<"#", "t">> \o CRLF
      [] v.t = "VerbatimString" ->
            <<"=">> \o NatToString(VerbatimLen(v.e, v.s)) \o CRLF
                \o v.e \o <<":">> \o v.s \o CRLF
      [] v.t = "NullBulkString" -> <<"$", "-", "1">> \o CRLF

\* the '(' arm's check of the text
BigNumberValid(s) ==
    /\ Len(s) > 0
    /\ s[1] \in {"+", "-"}
    /\ \A i \in 2..Len(s) : s[i] \in DigitChars

\* the ',' arm; line is what read_line returned
ParseDouble(line) ==
    IF line.kind # "Ok" THEN line
    ELSE IF line.val = <<"i", "n", "f">> THEN Ok(PositiveInfinity, line.pos)
    ELSE IF line.val = <<"-", "i", "n", "f">> THEN Ok(NegativeInfinity, line.pos)
    ELSE IF line.val = <<"n", "a", "n">> THEN Ok(NaN, line.pos)
    ELSE IF Utf8Valid(line.val) /\ ParseF64(line.val).ok
    THEN Ok(Double(ParseF64(line.val).d), line.pos)
    ELSE Err("InvalidInput", line.pos)

\* the '$' arm; len is what read_integer returned
ParseBulkString(input, len) ==
    LET data == Read(input, len.pos, len.val)
        terminator == Read(input, data.pos, 2)
    IN  IF len.kind # "Ok" THEN len
        ELSE IF len.val = -1 THEN Ok(NullBulkString, len.pos)
        ELSE IF data.kind # "Ok" THEN data
        ELSE IF ~Utf8Valid(data.val) THEN Err("InvalidInput", data.pos)
        ELSE IF terminator.kind # "Ok" THEN terminator
        ELSE IF terminator.val # CRLF THEN Err("InvalidInput", terminator.pos)
        ELSE Ok(BulkString(data.val), terminator.pos)

\* the '!' arm
ParseBulkError(input, len) ==
    LET data == Read(input, len.pos, len.val)
    IN  IF len.kind # "Ok" THEN len
        ELSE IF data.kind # "Ok" THEN data
        ELSE IF ~Utf8Valid(data.val) THEN Err("InvalidInput", data.pos)
        ELSE Ok(BulkError(data.val), data.pos)

\* the '=' arm; data[3] is an index out of bounds, a
\* panic, when fewer than 4 bytes were read
ParseVerbatimString(input, len) ==
    LET data == Read(input, len.pos, len.val)
    IN  IF len.kind # "Ok" THEN len
        ELSE IF data.kind # "Ok" THEN data
        ELSE IF Len(data.val) < 4 THEN Err("Panic", data.pos)
        ELSE IF data.val[4] # ":" THEN Err("InvalidInput", data.pos)
        ELSE IF ~Utf8Valid(SubSeq(data.val, 1, 3)) THEN Err("InvalidInput", data.pos)
        ELSE IF ~Utf8Valid(SubSeq(data.val, 5, Len(data.val)))
        THEN Err("InvalidInput", data.pos)
        ELSE Ok(VerbatimString(SubSeq(data.val, 1, 3),
                               SubSeq(data.val, 5, Len(data.val))), data.pos)

RECURSIVE parse_value(_, _)
RECURSIVE ParseItems(_, _, _, _)
RECURSIVE ParseEntries(_, _, _, _)

\* decode n more values from position, after those of acc; the first failure
\* is the result
ParseItems(input, position, n, acc) ==
    IF n <= 0 THEN Ok(acc, position)
    ELSE LET item == parse_value(input, position)
         IN  IF item.kind # "Ok" THEN item
             ELSE ParseItems(input, item.pos, n - 1, Append(acc, item.val))

\* decode n more (key, value) pairs from position, after those of acc
ParseEntries(input, position, n, acc) ==
    IF n <= 0 THEN Ok(acc, position)
    ELSE LET key == parse_value(input, position)
         IN  IF key.kind # "Ok" THEN key
             ELSE LET value == parse_value(input, key.pos)
                  IN  IF value.kind # "Ok" THEN value
                      ELSE ParseEntries(input, value.pos, n - 1,
                                        Append(acc, <<key.val, value.val>>))

\* the arms of the match on the first byte, each after its first read
ParseSimpleString(string) ==
    IF string.kind # "Ok" THEN string
    ELSE Ok(SimpleString(string.val), string.pos)

ParseError(string) ==
    IF string.kind # "Ok" THEN string
    ELSE Ok(Error(string.val), string.pos)

ParseInteger(integer) ==
    IF integer.kind # "Ok" THEN integer
    ELSE Ok(Integer(integer.val), integer.pos)

ArrayOf(items) ==
    IF items.kind # "Ok" THEN items ELSE Ok(Array(items.val), items.pos)

ParseArray(input, len) ==
    IF len.kind # "Ok" THEN len
    ELSE IF len.val = -1 THEN Ok(Null, len.pos)
    ELSE ArrayOf(ParseItems(input, len.pos, len.val, <<>>))

ParseNull(terminator) ==
    IF terminator.kind # "Ok" THEN terminator
    ELSE IF terminator.val # CRLF THEN Err("InvalidInput", terminator.pos)
    ELSE Ok(Null, terminator.pos)

ParseBoolean(value) ==
    IF value.kind # "Ok" THEN value
    ELSE IF value.val = "t" THEN Ok(True, value.pos)
    ELSE IF value.val = "f" THEN Ok(False, value.pos)
    ELSE Err("InvalidInput", value.pos)

ParseBigNumber(value) ==
    IF value.kind # "Ok" THEN value
    ELSE IF ~BigNumberValid(value.val) THEN Err("InvalidInput", value.pos)
    ELSE Ok(BigNumber(value.val), value.pos)

MapOf(entries) ==
    IF entries.kind # "Ok" THEN entries ELSE Ok(Map(entries.val), entries.pos)

ParseMap(input, len) ==
    IF len.kind # "Ok" THEN len
    ELSE MapOf(ParseEntries(input, len.pos, len.val, <<>>))

SetOf(entries) ==
    IF entries.kind # "Ok" THEN entries ELSE Ok(Set(entries.val), entries.pos)

ParseSet(input, len) ==
    IF len.kind # "Ok" THEN len
    ELSE SetOf(ParseItems(input, len.pos, len.val, <<>>))

\* match first_byte, with the cursor at p
ParseArm(input, first_byte, p) ==
    CASE first_byte = "+" -> ParseSimpleString(ReadString(input, p))
      [] first_byte = "-" -> ParseError(ReadString(input, p))
      [] first_byte = ":" -> ParseInteger(ReadInteger(input, p))
      [] first_byte = "$" -> ParseBulkString(input, ReadInteger(input, p))
      [] first_byte = "*" -> ParseArray(input, ReadInteger(input, p))
      [] first_byte = "_" -> ParseNull(Read(input, p, 2))
      [] first_byte = "#" -> ParseBoolean(ReadByte(input, p))
      [] first_byte = "," -> ParseDouble(ReadLine(input, p))
      [] first_byte = "(" -> ParseBigNumber(ReadString(input, p))
      [] first_byte = "!" -> ParseBulkError(input, ReadInteger(input, p))
      [] first_byte = "=" -> ParseVerbatimString(input, ReadInteger(input, p))
      [] first_byte = "%" -> ParseMap(input, ReadInteger(input, p))
      [] first_byte = "~" -> ParseSet(input, ReadInteger(input, p))
      [] OTHER -> Err("InvalidInput", p)

\* let first_byte = cursor.read_byte()?
ParseFirst(input, first) ==
    IF first.kind # "Ok" THEN first
    ELSE ParseArm(input, first.val, first.pos)

\* parse_value(cursor)
parse_value(input, position) == ParseFirst(input, ReadByte(input, position))

\* a result that fails when bytes are left after the value
WholeInput(input, r) ==
    IF r.kind = "Ok" /\ r.pos # Len(input) THEN Err("InvalidInput", r.pos) ELSE r

\* a parse that accepts nothing after the first value
ParseWhole(input) == WholeInput(input, parse_value(input, 0))

\* parse(input): a fresh cursor at position 0
parse(input) == parse_value(input, 0)

----------------------------------------------------------------------------
(* commands.rs: Command and Command::from_bytes                            *)

None == [some |-> FALSE, v |-> 0]
Some(n) == [some |-> TRUE, v |-> n]

CommandConfigGet(name) == [c |-> "ConfigGet", key |-> name]
CommandEcho(arg) == [c |-> "Echo", arg |-> arg]
CommandGet(key) == [c |-> "Get", key |-> key]
CommandPing == [c |-> "Ping"]
CommandSet(key, value, expiry) ==
    [c |-> "Set", key |-> key, value |-> value, expiry |-> expiry]
NoCommand == [c |-> "None"]

CmdOk(cmd) == [kind |-> "Ok", cmd |-> cmd]
CmdErr(k) == [kind |-> k, cmd |-> NoCommand]

\* Err(RespError::InvalidInput(String::from_utf8(bytes.to_vec()).unwrap())):
\* the unwrap panics when the bytes read are not UTF-8
InvalidInput(bytes) ==
    IF Utf8Valid(bytes) THEN CmdErr("InvalidInput") ELSE CmdErr("Panic")

W_CONFIG == <<"C", "O", "N", "F", "I", "G">>
W_ECHO == <<"E", "C", "H", "O">>
W_GET == <<"G", "E", "T">>
W_PING == <<"P", "I", "N", "G">>
W_SET == <<"S", "E", "T">>
W_PX == <<"P", "X">>

IsBulk(v) == v.t = "BulkString"

\* the loop over arr[3..].chunks(2): chunks is what is left of the options,
\* expiry the value so far; val.parse::<u64>().unwrap() panics on a value
\* that is no u64
RECURSIVE ScanOptions(_, _)
ScanOptions(chunks, expiry) ==
    IF chunks = <<>> THEN [panic |-> FALSE, expiry |-> expiry]
    ELSE IF Len(chunks) = 1 THEN [panic |-> FALSE, expiry |-> expiry]
    ELSE LET opt == chunks[1]
             val == chunks[2]
             rest == SubSeq(chunks, 3, Len(chunks))
         IN  IF IsBulk(opt) /\ IsBulk(val) /\ to_ascii_uppercase(opt.s) = W_PX
             THEN IF ParseU64(val.s).ok
                  THEN ScanOptions(rest, Some(ParseU64(val.s).n))
                  ELSE [panic |-> TRUE, expiry |-> expiry]
             ELSE ScanOptions(rest, expiry)

\* the "CONFIG" arm
FromConfig(bytes, arr) ==
    IF Len(arr) < 3 THEN InvalidInput(bytes)
    ELSE IF ~IsBulk(arr[2]) THEN InvalidInput(bytes)
    ELSE IF to_ascii_uppercase(arr[2].s) = W_GET
    THEN IF Len(arr) # 3 THEN InvalidInput(bytes)
         ELSE IF ~IsBulk(arr[3]) THEN InvalidInput(bytes)
         ELSE CmdOk(CommandConfigGet(arr[3].s))
    ELSE InvalidInput(bytes)

\* the "ECHO" arm
FromEcho(bytes, arr) ==
    IF Len(arr) # 2 THEN InvalidInput(bytes)
    ELSE IF ~IsBulk(arr[2]) THEN InvalidInput(bytes)
    ELSE CmdOk(CommandEcho(arr[2].s))

\* the "GET" arm
FromGet(bytes, arr) ==
    IF Len(arr) # 2 THEN InvalidInput(bytes)
    ELSE IF ~IsBulk(arr[2]) THEN InvalidInput(bytes)
    ELSE CmdOk(CommandGet(arr[2].s))

\* the "PING" arm
FromPing(bytes, arr) == CmdOk(CommandPing)

\* the "SET" arm with the options taken from arr[2..]
FromSetFromValue(bytes, arr) ==
    LET scan == ScanOptions(SubSeq(arr, 3, Len(arr)), None)
    IN  IF Len(arr) < 3 THEN InvalidInput(bytes)
        ELSE IF ~IsBulk(arr[2]) THEN InvalidInput(bytes)
        ELSE IF ~IsBulk(arr[3]) THEN InvalidInput(bytes)
        ELSE IF scan.panic THEN CmdErr("Panic")
        ELSE CmdOk(CommandSet(arr[2].s, arr[3].s, scan.expiry))

\* the "SET" arm
FromSet(bytes, arr) ==
    LET scan == ScanOptions(SubSeq(arr, 4, Len(arr)), None)
    IN  IF Len(arr) < 3 THEN InvalidInput(bytes)
        ELSE IF ~IsBulk(arr[2]) THEN InvalidInput(bytes)
        ELSE IF ~IsBulk(arr[3]) THEN InvalidInput(bytes)
        ELSE IF scan.panic THEN CmdErr("Panic")
        ELSE CmdOk(CommandSet(arr[2].s, arr[3].s, scan.expiry))

\* match cmd.as_str(): cmd is the first element's text in upper case
FromVerb(bytes, arr, cmd) ==
    CASE cmd = W_CONFIG -> FromConfig(bytes, arr)
      [] cmd = W_ECHO -> FromEcho(bytes, arr)
      [] cmd = W_GET -> FromGet(bytes, arr)
      [] cmd = W_PING -> FromPing(bytes, arr)
      [] cmd = W_SET -> FromSet(bytes, arr)
      [] OTHER -> InvalidInput(bytes)

\* the checks of the array and of its first element
FromArray(bytes, arr) ==
    IF Len(arr) = 0 THEN InvalidInput(bytes)
    ELSE IF ~IsBulk(arr[1]) THEN InvalidInput(bytes)
    ELSE FromVerb(bytes, arr, to_ascii_uppercase(arr[1].s))

\* what follows parse(bytes)?, which hands a codec failure on as it is
FromValue(bytes, value) ==
    IF value.kind # "Ok" THEN CmdErr(value.kind)
    ELSE IF value.val.t # "Array" THEN InvalidInput(bytes)
    ELSE FromArray(bytes, value.val.items)

\* Command::from_bytes
from_bytes(bytes) == FromValue(bytes, parse(bytes))

----------------------------------------------------------------------------
(* State.  The codec variables hold one value or byte sequence under test  *)
(* and what the codec and the command interpreter made of it; the server   *)
(* variables hold the store (kv.rs), the configuration (config.rs) and the *)
(* connection handlers (main.rs).                                          *)

VARIABLES
    value,      \* the RespValue under test, NoValue when bytes came first
    bytes,      \* the byte sequence under test
    stage,      \* "value", "bytes", "parsed", "reencoded", "command", "cursor",
                \* "idle"
    parsed,     \* what parse(bytes) returned
    reenc,      \* as_bytes of the parsed value
    command,    \* what from_bytes(bytes) returned
    cursor,     \* a cursor.rs Cursor over bytes: its position, and the last
                \* call made on it with what the call returned
    config,     \* config.rs KV: dir and dbfilename
    wire,       \* the byte sequences a client may send, each with what
                \* Command::from_bytes makes of it
    kv,         \* kv.rs KV: the mapping, a function from its keys
    cron,       \* kv.rs CRON: the ledger, a sequence of [key, expiry]
    kvLock,     \* the RwLock around KV: its writer and its readers
    cronLock,   \* the Mutex around CRON: its holder
    clock,      \* Instant::now()
    sweep,      \* the sweeper task: pc, the tick's now, its place in retain
    pc,         \* per connection: where its handler stands
    cmd,        \* per connection: what from_bytes made of the last read
    reply,      \* per connection: the reply built and not yet written
    out,        \* per connection: the replies written since the last read
    expiryAt,   \* per connection: the instant computed by set
    hist,       \* per key: the last insert or removal the mapping saw
    snap,       \* per connection: hist of the key when get took its lock,
                \* kept until the reply is written
    expired     \* keys whose last set's instant a whole tick has observed

codecVars == <<value, bytes, stage, parsed, reenc, command, cursor>>
storeVars == <<kv, cron, kvLock, cronLock, sweep, hist, expired>>
connVars == <<pc, cmd, reply, out, expiryAt, snap>>
serverVars == <<config, wire, clock, storeVars, connVars>>
vars == <<codecVars, serverVars>>

----------------------------------------------------------------------------
(* kv.rs                                                                   *)

NoOwner == "none"
Sweeper == "sweeper"
Conns == {"c1", "c2"}

EmptyMap == [k \in {} |-> <<>>]
NoText == [some |-> FALSE, v |-> <<>>]
SomeText(s) == [some |-> TRUE, v |-> s]

\* kv.get(key).cloned()
KvGet(m, key) == IF key \in DOMAIN m THEN SomeText(m[key]) ELSE NoText

\* an insert that keeps the value of a key the mapping already holds
KvInsertIfAbsent(m, key, val) ==
    [k \in DOMAIN m \cup {key} |-> IF k \in DOMAIN m THEN m[k] ELSE val]

\* kv.insert(key.to_string(), value)
KvInsert(m, key, val) ==
    [k \in DOMAIN m \cup {key} |-> IF k = key THEN val ELSE m[k]]

\* kv.remove(key)
KvRemove(m, key) == [k \in DOMAIN m \ {key} |-> m[k]]

\* a push that takes the place of the records the ledger holds for the key
CronPushReplacing(ledger, key, expiry) ==
    Append(SelectSeq(ledger, LAMBDA record : record.key # key),
           [key |-> key, expiry |-> expiry])

\* cron.push((key.to_string(), expiry))
CronPush(ledger, key, expiry) == Append(ledger, [key |-> key, expiry |-> expiry])

\* a test that keeps a record until its instant has passed
DueAfter(now, record) == now > record.expiry

\* the retain closure's test of one record
Due(now, record) == now >= record.expiry

\* Instant::now() + Duration::from_millis(expiry)
ExpiryInstant(now, millis) == now + millis

\* a removal that drops the records behind the removed one as well
RemoveAtTruncating(ledger, i) == SubSeq(ledger, 1, i - 1)

\* retain dropping the record at i: the others keep their order
RemoveAt(ledger, i) == SubSeq(ledger, 1, i - 1) \o SubSeq(ledger, i + 1, Len(ledger))

\* RwLock::write and RwLock::read return at once
CanWrite(lock) == lock.writer = NoOwner /\ lock.readers = {}
CanRead(lock) == lock.writer = NoOwner

\* hist: op is "none", "set" or "evict"; val and by are the value a set wrote
\* and its connection; rec tells that this set has pushed its record; after
\* an eviction val is the value the sweeper removed, <<>> when there was none
NoEvent == [op |-> "none", val |-> <<>>, by |-> NoOwner, rec |-> FALSE]

\* the expiry of the last record the ledger holds for key
LastExpiry(ledger, key) ==
    ledger[CHOOSE i \in 1..Len(ledger) :
              /\ ledger[i].key = key
              /\ \A j \in (i + 1)..Len(ledger) : ledger[j].key # key].expiry


\* the sweeper task asleep between two ticks; in a tick now is the instant
\* it observed, idx the record retain is at, due the keys whose last Set has
\* a record that is due, pre the ledger as the tick found it where the
\* specification records it (SpecStore)
Asleep == [pc |-> "sleep", now |-> 0, idx |-> 0, due |-> {}, pre |-> <<>>]

----------------------------------------------------------------------------
(* Bounds and inputs of the server                                         *)

MaxClock == 2
MaxLedger == 2

K1 == <<"k", "1">>
K2 == <<"k", "2">>
V1 == <<"v", "1">>
V2 == <<"v", "2">>
Keys == {K1, K2}

W_dir == <<"d", "i", "r">>
W_dbfilename == <<"d", "b", "f", "i", "l", "e", "n", "a", "m", "e">>

\* cli.rs: the defaults of --dir and --dbfilename, and one other setting
DefaultConfig ==
    [dir |-> <<"/", "t", "m", "p", "/", "r", "e", "d", "i", "s", "-", "d", "a", "t", "a">>,
     dbfilename |-> <<"d", "u", "m", "p", ".", "r", "d", "b">>]
OtherConfig == [dir |-> <<"/", "d">>, dbfilename |-> <<"x", ".", "r", "d", "b">>]

\* what a client sends for a command: an array of bulk strings
Request(args) == as_bytes(Array([i \in 1..Len(args) |-> BulkString(args[i])]))

\* the requests of the two-connection specification
StoreRequests ==
    { Request(<<W_PING>>),
      Request(<<<<"e", "c", "h", "o">>, <<"h", "i">>>>),
      Request(<<W_GET, K1>>),
      Request(<<W_SET, K1, V1>>),
      Request(<<<<"s", "e", "t">>, K1, V2, <<"p", "x">>, <<"1">>>>) }

\* further requests of the one-connection specification
MoreRequests ==
    { Request(<<W_CONFIG, W_GET, W_dir>>),
      Request(<<W_CONFIG, <<"g", "e", "t">>, W_dbfilename>>),
      Request(<<W_CONFIG, W_GET, <<"D", "I", "R">>>>),
      Request(<<W_GET, K2>>),
      Request(<<W_SET, K2, V1>>),
      Request(<<W_SET, K1, V1, W_PX, <<"0">>>>) }

\* reads that do not interpret as a command: an unsupported verb, a command
\* cut short, a bulk string that is no text, a bad option value, bytes after
\* the value that are no text, a negative bulk length
BadRequests ==
    { <<"*", "1">> \o CRLF \o <<"$", "7">> \o CRLF
          \o <<"I", "N", "V", "A", "L", "I", "D">> \o CRLF,
      <<"*", "2">> \o CRLF \o <<"$", "3">> \o CRLF \o W_GET \o CRLF,
      <<"*", "1">> \o CRLF \o <<"$", "1">> \o CRLF \o <<BadByte>> \o CRLF,
      Request(<<W_SET, K1, V1, W_PX, <<"x">>>>),
      <<"+", "h", "i">> \o CRLF \o <<BadByte>>,
      <<"$", "-", "2">> \o CRLF }

\* two commands that one read delivers together
TwoCommands == Request(<<W_ECHO, K2>>) \o Request(<<W_SET, K2, V2>>)

\* SET k2 v2 delivered by two reads: all but its last element, and its last
\* element
SplitTail == as_bytes(BulkString(V2))
SplitHead ==
    SubSeq(Request(<<W_SET, K2, V2>>), 1,
           Len(Request(<<W_SET, K2, V2>>)) - Len(SplitTail))

\* reads that do not hold exactly one command
StreamRequests == {TwoCommands, SplitHead, SplitTail}

AllRequests == StoreRequests \cup MoreRequests \cup BadRequests \cup StreamRequests

----------------------------------------------------------------------------
(* main.rs: the replies                                                    *)

NoReply == [t |-> "None"]
PongReply == SimpleString(<<"P", "O", "N", "G">>)
OkReply == SimpleString(<<"O", "K">>)
ErrorReply ==
    Error(<<"u", "n", "k", "n", "o", "w", "n", " ", "c", "o", "m", "m", "a", "n", "d">>)
\* an echo sent as a simple string
EchoReplySimple(arg) == SimpleString(arg)

EchoReply(arg) == BulkString(arg)
GetReply(found) == IF found.some THEN BulkString(found.v) ELSE NullBulkString

\* a ConfigGet arm that answers dbfilename with the directory
ConfigGetReplyDir(key, conf) ==
    CASE key = W_dir -> <<Array(<<SimpleString(W_dir), BulkString(conf.dir)>>)>>
      [] key = W_dbfilename ->
            <<Array(<<SimpleString(W_dbfilename), BulkString(conf.dir)>>)>>
      [] OTHER -> <<>>

\* the ConfigGet arm: the replies it sends, one or none
ConfigGetReply(key, conf) ==
    CASE key = W_dir -> <<Array(<<SimpleString(W_dir), BulkString(conf.dir)>>)>>
      [] key = W_dbfilename ->
            <<Array(<<SimpleString(W_dbfilename), BulkString(conf.dbfilename)>>)>>
      [] OTHER -> <<>>

\* Command::from_bytes(&buf[..n]) of every request of a set
Interpret(requests) == [r \in requests |-> from_bytes(r)]

\* sets that have not pushed their record yet
PendingPushes ==
    Cardinality({c \in Conns : pc[c] \in {"set", "set_cron"} /\ cmd[c].cmd.expiry.some})

----------------------------------------------------------------------------
(* main.rs and kv.rs: the actions                                          *)

\* socket.read returned n > 0 bytes: interpret them and dispatch, up to the
\* first lock or socket write
Receive(c, req) ==
    LET r == wire[req]
    IN  /\ pc[c] = "read"
        /\ (r.kind = "Ok" /\ r.cmd.c = "Set" /\ r.cmd.expiry.some)
              => Len(cron) + PendingPushes < MaxLedger
        /\ cmd' = [cmd EXCEPT ![c] = r]
        /\ out' = [out EXCEPT ![c] = <<>>]
        /\ snap' = [snap EXCEPT ![c] = NoEvent]
        /\ CASE r.kind = "Panic" ->
                    /\ pc' = [pc EXCEPT ![c] = "aborted"]
                    /\ reply' = reply
             [] r.kind \in {"InvalidInput", "UnexpectedEOF"} ->
                    /\ pc' = [pc EXCEPT ![c] = "send"]
                    /\ reply' = [reply EXCEPT ![c] = ErrorReply]
             [] r.kind = "Ok" /\ r.cmd.c = "Ping" ->
                    /\ pc' = [pc EXCEPT ![c] = "send"]
                    /\ reply' = [reply EXCEPT ![c] = PongReply]
             [] r.kind = "Ok" /\ r.cmd.c = "Echo" ->
                    /\ pc' = [pc EXCEPT ![c] = "send"]
                    /\ reply' = [reply EXCEPT ![c] = EchoReply(r.cmd.arg)]
             [] r.kind = "Ok" /\ r.cmd.c = "ConfigGet" ->
                    LET replies == ConfigGetReply(r.cmd.key, config)
                    IN  IF replies = <<>>
                        THEN pc' = pc /\ reply' = reply
                        ELSE /\ pc' = [pc EXCEPT ![c] = "send"]
                             /\ reply' = [reply EXCEPT ![c] = replies[1]]
             [] r.kind = "Ok" /\ r.cmd.c = "Set" ->
                    /\ pc' = [pc EXCEPT ![c] = "set"]
                    /\ reply' = reply
             [] r.kind = "Ok" /\ r.cmd.c = "Get" ->
                    /\ pc' = [pc EXCEPT ![c] = "get"]
                    /\ reply' = reply
        /\ UNCHANGED <<codecVars, config, wire, clock, storeVars, expiryAt>>

\* socket.read returned 0: the handler returns
ReadZero(c) ==
    /\ pc[c] = "read"
    /\ pc' = [pc EXCEPT ![c] = "closed"]
    /\ UNCHANGED <<codecVars, config, wire, clock, storeVars, cmd, reply, out, expiryAt, snap>>

\* socket.read failed: expect panics and the task ends
ReadFail(c) ==
    /\ pc[c] = "read"
    /\ pc' = [pc EXCEPT ![c] = "io_failed"]
    /\ UNCHANGED <<codecVars, config, wire, clock, storeVars, cmd, reply, out, expiryAt, snap>>

\* send: write_all wrote the reply
Send(c) ==
    /\ pc[c] = "send"
    /\ out' = [out EXCEPT ![c] = Append(@, reply[c])]
    /\ reply' = [reply EXCEPT ![c] = NoReply]
    /\ snap' = [snap EXCEPT ![c] = NoEvent]
    /\ pc' = [pc EXCEPT ![c] = "read"]
    /\ UNCHANGED <<codecVars, config, wire, clock, storeVars, cmd, expiryAt>>

\* send: write_all failed: expect panics and the task ends
SendFail(c) ==
    /\ pc[c] = "send"
    /\ reply' = [reply EXCEPT ![c] = NoReply]
    /\ snap' = [snap EXCEPT ![c] = NoEvent]
    /\ pc' = [pc EXCEPT ![c] = "io_failed"]
    /\ UNCHANGED <<codecVars, config, wire, clock, storeVars, cmd, out, expiryAt>>

\* a set that drops the records the ledger holds for its key
SetInsertCancelling(c) ==
    LET s == cmd[c].cmd
    IN  /\ pc[c] = "set"
        /\ CanWrite(kvLock)
        /\ kv' = KvInsert(kv, s.key, s.value)
        /\ cron' = SelectSeq(cron, LAMBDA record : record.key # s.key)
        /\ hist' = [hist EXCEPT ![s.key] =
                        [op |-> "set", val |-> s.value, by |-> c, rec |-> FALSE]]
        /\ expired' = expired \ {s.key}
        /\ sweep' = [sweep EXCEPT !.due = @ \ {s.key}]
        /\ IF s.expiry.some
           THEN /\ kvLock' = [kvLock EXCEPT !.writer = c]
                /\ expiryAt' = [expiryAt EXCEPT ![c] = ExpiryInstant(clock, s.expiry.v)]
                /\ pc' = [pc EXCEPT ![c] = "set_cron"]
                /\ reply' = reply
           ELSE /\ kvLock' = kvLock
                /\ expiryAt' = expiryAt
                /\ pc' = [pc EXCEPT ![c] = "send"]
                /\ reply' = [reply EXCEPT ![c] = OkReply]
        /\ UNCHANGED <<codecVars, config, wire, clock, cronLock, cmd, out, snap>>

\* kv::set up to the ledger's lock: the write lock, the insert, and without
\* an expiry the return, which drops the lock
SetInsert(c) ==
    LET s == cmd[c].cmd
    IN  /\ pc[c] = "set"
        /\ CanWrite(kvLock)
        /\ kv' = KvInsert(kv, s.key, s.value)
        /\ hist' = [hist EXCEPT ![s.key] =
                        [op |-> "set", val |-> s.value, by |-> c, rec |-> FALSE]]
        /\ expired' = expired \ {s.key}
        /\ sweep' = [sweep EXCEPT !.due = @ \ {s.key}]
        /\ IF s.expiry.some
           THEN /\ kvLock' = [kvLock EXCEPT !.writer = c]
                /\ expiryAt' = [expiryAt EXCEPT ![c] = ExpiryInstant(clock, s.expiry.v)]
                /\ pc' = [pc EXCEPT ![c] = "set_cron"]
                /\ reply' = reply
           ELSE /\ kvLock' = kvLock
                /\ expiryAt' = expiryAt
                /\ pc' = [pc EXCEPT ![c] = "send"]
                /\ reply' = [reply EXCEPT ![c] = OkReply]
        /\ UNCHANGED <<codecVars, config, wire, clock, cron, cronLock, cmd, out, snap>>

\* kv::set from the ledger's lock on: the push and the return, which drops
\* both locks
SetPush(c) ==
    LET s == cmd[c].cmd
    IN  /\ pc[c] = "set_cron"
        /\ cronLock = NoOwner
        /\ cron' = CronPush(cron, s.key, expiryAt[c])
        /\ kvLock' = [kvLock EXCEPT !.writer = NoOwner]
        /\ hist' = [hist EXCEPT ![s.key].rec = TRUE]
        /\ expiryAt' = [expiryAt EXCEPT ![c] = 0]
        /\ pc' = [pc EXCEPT ![c] = "send"]
        /\ reply' = [reply EXCEPT ![c] = OkReply]
        /\ UNCHANGED <<codecVars, config, wire, clock, kv, cronLock, sweep, expired, cmd, out, snap>>

\* kv::get: the read lock
GetLock(c) ==
    /\ pc[c] = "get"
    /\ CanRead(kvLock)
    /\ kvLock' = [kvLock EXCEPT !.readers = @ \cup {c}]
    /\ snap' = [snap EXCEPT ![c] = hist[cmd[c].cmd.key]]
    /\ pc' = [pc EXCEPT ![c] = "get_locked"]
    /\ UNCHANGED <<codecVars, config, wire, clock, kv, cron, cronLock, sweep, hist, expired,
                   cmd, reply, out, expiryAt>>

\* a get that answers absent for a key with a record whose instant has
\* passed
GetDoneExpiring(c) ==
    /\ pc[c] = "get_locked"
    /\ kvLock' = [kvLock EXCEPT !.readers = @ \ {c}]
    /\ reply' = [reply EXCEPT ![c] =
                    IF \E i \in 1..Len(cron) :
                          cron[i].key = cmd[c].cmd.key /\ Due(clock, cron[i])
                    THEN NullBulkString
                    ELSE GetReply(KvGet(kv, cmd[c].cmd.key))]
    /\ pc' = [pc EXCEPT ![c] = "send"]
    /\ UNCHANGED <<codecVars, config, wire, clock, kv, cron, cronLock, sweep, hist, expired,
                   cmd, out, expiryAt, snap>>

\* kv::get: the lookup and the return, which drops the lock
GetDone(c) ==
    /\ pc[c] = "get_locked"
    /\ kvLock' = [kvLock EXCEPT !.readers = @ \ {c}]
    /\ reply' = [reply EXCEPT ![c] = GetReply(KvGet(kv, cmd[c].cmd.key))]
    /\ pc' = [pc EXCEPT ![c] = "send"]
    /\ UNCHANGED <<codecVars, config, wire, clock, kv, cron, cronLock, sweep, hist, expired,
                   cmd, out, expiryAt, snap>>

\* the sweeper wakes: the ledger's lock and Instant::now(); found is what
\* the tick remembers of the ledger it finds
SweepWake(found) ==
    /\ sweep.pc = "sleep"
    /\ cronLock = NoOwner
    /\ cronLock' = Sweeper
    /\ sweep' = [pc |-> "retain", now |-> clock, idx |-> 1,
                 due |-> {k \in Keys : /\ hist[k].op = "set"
                                       /\ hist[k].rec
                                       /\ LastExpiry(cron, k) <= clock},
                 pre |-> found]
    /\ UNCHANGED <<codecVars, config, wire, clock, kv, cron, kvLock, hist, expired, connVars>>

SweepStart == SweepWake(<<>>)

\* the same step, remembering the ledger as the tick found it
SweepStartRecording == SweepWake(cron)

\* retain's closure on the next record: a due record takes the mapping's
\* write lock, removes the key, drops the lock and is dropped itself
SweepStep ==
    /\ sweep.pc = "retain"
    /\ sweep.idx <= Len(cron)
    /\ LET record == cron[sweep.idx]
       IN  IF Due(sweep.now, record)
           THEN /\ CanWrite(kvLock)
                /\ kv' = KvRemove(kv, record.key)
                /\ cron' = RemoveAt(cron, sweep.idx)
                /\ hist' = [hist EXCEPT ![record.key] =
                               [op |-> "evict", val |-> KvGet(kv, record.key).v,
                                by |-> Sweeper, rec |-> FALSE]]
                /\ sweep' = sweep
           ELSE /\ sweep' = [sweep EXCEPT !.idx = @ + 1]
                /\ UNCHANGED <<kv, cron, hist>>
    /\ UNCHANGED <<codecVars, config, wire, clock, kvLock, cronLock, expired, connVars>>

\* retain returns and the ledger's lock is dropped; the task sleeps
SweepEnd ==
    /\ sweep.pc = "retain"
    /\ sweep.idx > Len(cron)
    /\ cronLock' = NoOwner
    /\ expired' = expired \cup sweep.due
    /\ sweep' = Asleep
    /\ UNCHANGED <<codecVars, config, wire, clock, kv, cron, kvLock, hist, connVars>>

\* time passes
Tick ==
    /\ clock < MaxClock
    /\ clock' = clock + 1
    /\ UNCHANGED <<codecVars, config, wire, storeVars, connVars>>

NoValue == [t |-> "None"]
NoResult == [kind |-> "None", val |-> <<>>, pos |-> 0]

\* no cursor has been made
NoCursor ==
    [position |-> 0, call |-> "none", n |-> 0, from |-> 0,
     kind |-> "None", val |-> <<>>]

CodecIdle ==
    /\ value = NoValue
    /\ bytes = <<>>
    /\ stage = "idle"
    /\ parsed = NoResult
    /\ reenc = <<>>
    /\ command = CmdErr("None")
    /\ cursor = NoCursor

\* after config::init, cli::init and kv::init
ServerStart ==
    /\ kv = EmptyMap
    /\ cron = <<>>
    /\ kvLock = [writer |-> NoOwner, readers |-> {}]
    /\ cronLock = NoOwner
    /\ clock = 0
    /\ sweep = Asleep
    /\ cmd = [c \in Conns |-> CmdErr("None")]
    /\ reply = [c \in Conns |-> NoReply]
    /\ out = [c \in Conns |-> <<>>]
    /\ expiryAt = [c \in Conns |-> 0]
    /\ hist = [k \in Keys |-> NoEvent]
    /\ snap = [c \in Conns |-> NoEvent]
    /\ expired = {}

\* two connections accepted, sending the store's requests
Init ==
    /\ CodecIdle
    /\ ServerStart
    /\ config = DefaultConfig
    /\ wire = Interpret(StoreRequests)
    /\ pc = [c \in Conns |-> "read"]

\* one connection accepted, the other one closed, sending every request
InitHandler ==
    /\ CodecIdle
    /\ ServerStart
    /\ config \in {DefaultConfig, OtherConfig}
    /\ wire = Interpret(AllRequests)
    /\ pc = [c \in Conns |-> IF c = "c1" THEN "read" ELSE "closed"]

Next ==
    \/ \E c \in Conns, req \in DOMAIN wire : Receive(c, req)
    \/ \E c \in Conns : ReadZero(c)
    \/ \E c \in Conns : ReadFail(c)
    \/ \E c \in Conns : Send(c)
    \/ \E c \in Conns : SendFail(c)
    \/ \E c \in Conns : SetInsert(c)
    \/ \E c \in Conns : SetPush(c)
    \/ \E c \in Conns : GetLock(c)
    \/ \E c \in Conns : GetDone(c)
    \/ SweepStart
    \/ SweepStep
    \/ SweepEnd
    \/ Tick

Spec == Init /\ [][Next]_vars
SpecHandler == InitHandler /\ [][Next]_vars

\* one connection accepted, sending the store's requests and two more on a
\* second key and with an expiry of 0
InitStore ==
    /\ CodecIdle
    /\ ServerStart
    /\ config = DefaultConfig
    /\ wire = Interpret(StoreRequests \cup
                        {Request(<<W_SET, K2, V1>>),
                         Request(<<W_SET, K1, V1, W_PX, <<"0">>>>)})
    /\ pc = [c \in Conns |-> IF c = "c1" THEN "read" ELSE "closed"]

\* the steps of Next, each tick remembering the ledger it found
NextStore ==
    \/ \E c \in Conns, req \in DOMAIN wire : Receive(c, req)
    \/ \E c \in Conns : ReadZero(c)
    \/ \E c \in Conns : ReadFail(c)
    \/ \E c \in Conns : Send(c)
    \/ \E c \in Conns : SendFail(c)
    \/ \E c \in Conns : SetInsert(c)
    \/ \E c \in Conns : SetPush(c)
    \/ \E c \in Conns : GetLock(c)
    \/ \E c \in Conns : GetDone(c)
    \/ SweepStartRecording
    \/ SweepStep
    \/ SweepEnd
    \/ Tick

SpecStore == InitStore /\ [][NextStore]_vars

----------------------------------------------------------------------------
(* The codec and the command layer as pure functions: a value is encoded,  *)
(* a byte sequence is decoded and encoded again, or interpreted.           *)

MaxItems == 2

SeqsUpTo(S, n) == UNION {[1..k -> S] : k \in 0..n}

\* values of every variant, text without a line break in the line variants
Leaves ==
    { SimpleString(<<"h", "i">>), Error(<<"n", "o">>),
      Integer(1), Integer(0 - 3),
      BulkString(<<"h", "i">>), BulkString(<<>>), NullBulkString,
      Null, True, False,
      Double(NormF64(FALSE, 15, 0 - 1)), Double(NormF64(TRUE, 20, 0)),
      PositiveInfinity, NegativeInfinity, NaN,
      BigNumber(<<"+", "1", "2">>), BulkError(<<"n", "o">>),
      VerbatimString(<<"t", "x", "t">>, <<"h", "i">>) }

FewLeaves == {Integer(1), True, BulkString(<<"h", "i">>)}

Nested ==
    {Array(s) : s \in SeqsUpTo(FewLeaves, 1)}
        \cup {Set(<<x>>) : x \in FewLeaves}
        \cup {Map(<<<<x, y>>>>) : x \in FewLeaves, y \in FewLeaves}

Values ==
    Leaves
        \cup {Array(s) : s \in SeqsUpTo(Leaves, MaxItems)}
        \cup {Set(s) : s \in SeqsUpTo(FewLeaves, MaxItems)}
        \cup {Map(s) : s \in SeqsUpTo(FewLeaves \X FewLeaves, MaxItems)}
        \cup {Array(<<x, y>>) : x \in Nested, y \in FewLeaves}

\* every proper prefix of an encoding: input cut short
Truncations(b) == {SubSeq(b, 1, k) : k \in 0..(Len(b) - 1)}

\* byte sequences that are not the encoding of a value of Values
RawInputs ==
    { <<"$", "-", "2">> \o CRLF,
      <<"$", "-", "9">> \o CRLF,
      <<"=", "2">> \o CRLF \o <<"a", "b">> \o CRLF,
      <<"=", "6">> \o CRLF \o <<"t", "x", "t", "-", "h", "i">> \o CRLF,
      <<"=", "0">> \o CRLF \o CRLF,
      <<"=", "3">> \o CRLF \o <<"t", "x", "t">> \o CRLF,
      <<"=", "4">> \o CRLF \o <<"t", "x", "t", ":">> \o CRLF,
      <<"=", "9">> \o CRLF \o <<"t", "x", "t", ":">> \o CRLF,
      <<"*", "-", "1">> \o CRLF,
      <<"*", "-", "2">> \o CRLF,
      <<"%", "-", "1">> \o CRLF,
      <<"~", "-", "1">> \o CRLF,
      <<"!", "-", "1">> \o CRLF,
      <<"#", "t">>,
      <<"#", "x">> \o CRLF,
      <<"_", "x", "x">>,
      <<"?", "1">> \o CRLF,
      <<":", "+", "1">> \o CRLF,
      <<":", "x">> \o CRLF,
      <<":", "1">> \o CRLF \o <<"x">>,
      <<",", "1", ".", "5", "0">> \o CRLF,
      <<",", "x">> \o CRLF,
      <<"(", "1", "2">> \o CRLF,
      <<"$", "2">> \o CRLF \o <<"h", "i", "x", "x">>,
      <<"$", "1">> \o CRLF \o <<BadByte>> \o CRLF,
      <<"+", BadByte>> \o CRLF,
      <<CR>> }

MaxArgs == 3
MaxOptions == 4

\* elements that follow a verb: bulk strings, among them the subcommands
\* of CONFIG, and an element that is no bulk string
ArgElems ==
    {BulkString(K1), Integer(1), BulkString(W_GET),
     BulkString(<<"s", "e", "t">>)}

\* arrays of the verbs ECHO, GET, SET and CONFIG with up to MaxArgs further
\* elements of every kind
VerbArrays ==
    {<<BulkString(verb)>> \o args :
        verb \in {W_ECHO, <<"g", "e", "t">>, W_SET, <<"C", "o", "n", "f", "i", "g">>},
        args \in SeqsUpTo(ArgElems, MaxArgs)}

\* one read holding such an array, alone or followed by a byte that is not
\* UTF-8 (parse leaves what follows the first value unread)
VerbInputs ==
    {as_bytes(Array(a)) \o tail : a \in VerbArrays, tail \in {<<>>, <<BadByte>>}}

\* elements that follow SET key value: option names, option values, an
\* element that is no bulk string
OptionElems ==
    {BulkString(W_PX), BulkString(<<"p", "x">>), BulkString(<<"E", "X">>),
     BulkString(<<"1">>), BulkString(<<"0", "7">>), Integer(5)}

OptionLists == SeqsUpTo(OptionElems, MaxOptions)

SetArray(opts) == <<BulkString(W_SET), BulkString(K1), BulkString(V1)>> \o opts

\* one read holding SET k1 v1 and up to MaxOptions further elements
OptionInputs == {as_bytes(Array(SetArray(opts))) : opts \in OptionLists}

\* reads for the command layer beside those of the connections: PING in
\* three letter cases, PING with further elements, a verb that is no bulk
\* string, values that are no array, the verbs with arguments of every
\* count and kind, SET with options
CommandInputs ==
    AllRequests \cup VerbInputs \cup OptionInputs \cup
    { Request(<<<<"p", "i", "n", "g">>>>),
      Request(<<<<"P", "i", "N", "g">>>>),
      Request(<<W_PING, <<"x">>>>),
      Request(<<W_PING, <<"x">>, <<"y">>>>),
      Request(<<<<"P", "O", "N", "G">>>>),
      as_bytes(Array(<<SimpleString(W_PING)>>)),
      as_bytes(Array(<<BulkString(W_PING), Integer(1)>>)),
      as_bytes(Array(<<>>)),
      as_bytes(SimpleString(W_PING)),
      as_bytes(BulkString(W_PING)) }

\* the line that announces an aggregate of n elements
CountLine(tag, n) == <<tag>> \o NatToString(n) \o CRLF

\* inputs that end after fewer whole elements than the count announces: an
\* array or a set one element short, a map one pair or half a pair short
ShortAggregates ==
    {CountLine(tag, Len(items) + 1) \o ConcatBytes(items) :
        tag \in {"*", "~"}, items \in SeqsUpTo(FewLeaves, MaxItems - 1)}
    \cup {CountLine("%", Len(entries) + 1) \o ConcatEntries(entries) \o half :
            entries \in SeqsUpTo(FewLeaves \X FewLeaves, MaxItems - 1),
            half \in {<<>>} \cup {as_bytes(x) : x \in FewLeaves}}

CodecInputs ==
    RawInputs \cup CommandInputs \cup ShortAggregates
        \cup UNION {Truncations(as_bytes(v)) : v \in Leaves \cup Nested}
        \cup UNION {Truncations(r) : r \in StoreRequests}

\* v.as_bytes()
Encode ==
    /\ stage = "value"
    /\ bytes' = as_bytes(value)
    /\ stage' = "bytes"
    /\ UNCHANGED <<value, parsed, reenc, command, cursor, serverVars>>

\* parse(&bytes)
Decode ==
    /\ stage = "bytes"
    /\ parsed' = parse(bytes)
    /\ stage' = "parsed"
    /\ UNCHANGED <<value, bytes, reenc, command, cursor, serverVars>>

\* as_bytes of the value parse returned
ReEncode ==
    /\ stage = "parsed"
    /\ parsed.kind = "Ok"
    /\ reenc' = as_bytes(parsed.val)
    /\ stage' = "reencoded"
    /\ UNCHANGED <<value, bytes, parsed, command, cursor, serverVars>>

\* Command::from_bytes(&bytes) on what one read delivered, which is at
\* least one byte
InterpretBytes ==
    /\ stage = "bytes"
    /\ bytes # <<>>
    /\ command' = from_bytes(bytes)
    /\ stage' = "command"
    /\ UNCHANGED <<value, bytes, parsed, reenc, cursor, serverVars>>

\* a value to encode or a byte sequence to decode; no connection
InitCodec ==
    /\ \/ value \in Values /\ bytes = <<>> /\ stage = "value"
       \/ value = NoValue /\ bytes \in CodecInputs /\ stage = "bytes"
    /\ parsed = NoResult
    /\ reenc = <<>>
    /\ command = CmdErr("None")
    /\ cursor = NoCursor
    /\ ServerStart
    /\ config = DefaultConfig
    /\ wire = Interpret({})
    /\ pc = [c \in Conns |-> "closed"]

NextCodec ==
    \/ Encode
    \/ Decode
    \/ ReEncode
    \/ InterpretBytes

SpecCodec == InitCodec /\ [][NextCodec]_vars

----------------------------------------------------------------------------
(* The cursor on its own (SpecCursor): one Cursor over a buffer, and any   *)
(* sequence of calls on it.  A call that panics ends the sequence.         *)

MaxBuffer == 4
MaxRead == 3

BufferBytes == {CR, LF, "7", "-", "x", BadByte}

\* a line holding 9 * 10^19, which is above i64::MAX
TooLargeInteger == <<"9">> \o Zeros(19) \o CRLF

Buffers == SeqsUpTo(BufferBytes, MaxBuffer) \cup {TooLargeInteger}

\* the n of read(n): small counts, and the two largest usize (negative,
\* as in Read)
ReadCounts == 0..MaxRead \cup {-1, -2}

\* Cursor::new(input)
NewCursor ==
    [position |-> 0, call |-> "new", n |-> 0, from |-> 0,
     kind |-> "Ok", val |-> <<>>]

\* the cursor after a call that returned r
Called(call, n, r) ==
    [position |-> r.pos, call |-> call, n |-> n, from |-> cursor.position,
     kind |-> r.kind, val |-> r.val]

\* the cursor can be called: it exists and no call on it has panicked
CursorLive == stage = "cursor" /\ cursor.kind # "Panic"

\* cursor.read(n)
CursorRead ==
    /\ CursorLive
    /\ \E n \in ReadCounts :
          cursor' = Called("read", n, Read(bytes, cursor.position, n))
    /\ UNCHANGED <<value, bytes, stage, parsed, reenc, command, serverVars>>

\* cursor.read_byte()
CursorReadByte ==
    /\ CursorLive
    /\ cursor' = Called("read_byte", 1, ReadByte(bytes, cursor.position))
    /\ UNCHANGED <<value, bytes, stage, parsed, reenc, command, serverVars>>

\* cursor.read_line()
CursorReadLine ==
    /\ CursorLive
    /\ cursor' = Called("read_line", 0, ReadLine(bytes, cursor.position))
    /\ UNCHANGED <<value, bytes, stage, parsed, reenc, command, serverVars>>

\* cursor.read_string()
CursorReadString ==
    /\ CursorLive
    /\ cursor' = Called("read_string", 0, ReadString(bytes, cursor.position))
    /\ UNCHANGED <<value, bytes, stage, parsed, reenc, command, serverVars>>

\* cursor.read_integer()
CursorReadInteger ==
    /\ CursorLive
    /\ cursor' = Called("read_integer", 0,
                        ReadInteger(bytes, cursor.position))
    /\ UNCHANGED <<value, bytes, stage, parsed, reenc, command, serverVars>>

InitCursor ==
    /\ bytes \in Buffers
    /\ cursor = NewCursor
    /\ stage = "cursor"
    /\ value = NoValue
    /\ parsed = NoResult
    /\ reenc = <<>>
    /\ command = CmdErr("None")
    /\ ServerStart
    /\ config = DefaultConfig
    /\ wire = Interpret({})
    /\ pc = [c \in Conns |-> "closed"]

NextCursor ==
    \/ CursorRead
    \/ CursorReadByte
    \/ CursorReadLine
    \/ CursorReadString
    \/ CursorReadInteger

SpecCursor == InitCursor /\ [][NextCursor]_vars

----------------------------------------------------------------------------
(* Properties of the codec and of the command layer (SpecCodec)            *)

\* C4: every decode ends in one of three ways: for every input byte
\* sequence parse returns a value, or fails with UnexpectedEOF, or fails
\* with InvalidInput; it never aborts.
C4_DecodeFailureKinds ==
    stage = "parsed" => parsed.kind \in {"Ok", "UnexpectedEOF", "InvalidInput"}

\* parse has aborted on a verbatim string shorter than its 4-byte header
C4_Aborted ==
    /\ stage = "parsed"
    /\ bytes = <<"=", "2">> \o CRLF \o <<"a", "b">> \o CRLF
    /\ parsed.kind = "Panic"

\* C5: round trip from the value: for every value v, parse(as_bytes(v))
\* succeeds and is v.
C5_RoundTripValue ==
    (stage = "parsed" /\ value # NoValue)
        => (parsed.kind = "Ok" /\ parsed.val = value)

\* the encoding of [True, 1] has been decoded, and not to [True, 1]
C5_NestedBooleanLost ==
    /\ stage = "parsed"
    /\ value = Array(<<True, Integer(1)>>)
    /\ bytes = <<"*", "2">> \o CRLF \o <<"#", "t">> \o CRLF \o <<":", "1">> \o CRLF
    /\ parsed.kind = "InvalidInput"

\* the legacy encoding of the null array
LegacyNullArray == <<"*", "-", "1">> \o CRLF

\* C6: round trip from the bytes: for every byte sequence b that parse
\* accepts, as_bytes of the value parsed is b, except that the legacy null
\* array is encoded again as the explicit null.
C6_RoundTripBytes ==
    stage = "reencoded"
        => IF bytes = LegacyNullArray THEN reenc = as_bytes(Null)
           ELSE reenc = bytes

\* "#t" without its terminator has been accepted and encoded again with it
C6_TerminatorAdded ==
    /\ stage = "reencoded"
    /\ bytes = <<"#", "t">>
    /\ parsed = Ok(True, 2)
    /\ reenc = <<"#", "t">> \o CRLF

\* C9: every failure of Command::from_bytes is of the InvalidInput kind.
C9_FailuresAreInvalidInput ==
    (stage = "command" /\ command.kind # "Ok") => command.kind = "InvalidInput"

\* GET cut short after its verb has failed with UnexpectedEOF
C9_TruncatedIsUnexpectedEOF ==
    /\ stage = "command"
    /\ bytes = <<"*", "2">> \o CRLF \o <<"$", "3">> \o CRLF \o W_GET \o CRLF
    /\ command = CmdErr("UnexpectedEOF")

\* bytes decode to an array of exactly one element, the bulk string PING in
\* any letter case
IsPingOfOne(b) ==
    LET v == parse(b)
    IN  /\ v.kind = "Ok"
        /\ v.val.t = "Array"
        /\ Len(v.val.items) = 1
        /\ IsBulk(v.val.items[1])
        /\ to_ascii_uppercase(v.val.items[1].s) = W_PING

\* C10: from_bytes yields Ping exactly when the array is the verb PING, in
\* any letter case, and nothing else: PING with further elements does not
\* yield Ping.
C10_PingArity ==
    stage = "command" => (command = CmdOk(CommandPing) <=> IsPingOfOne(bytes))

\* PING with one further element has been interpreted as Ping
C10_PingWithArgument ==
    /\ stage = "command"
    /\ bytes = Request(<<W_PING, <<"x">>>>)
    /\ command = CmdOk(CommandPing)

----------------------------------------------------------------------------
(* Properties of the server (Spec, SpecHandler)                            *)

IsCmd(c, name) == cmd[c].kind = "Ok" /\ cmd[c].cmd.c = name

\* the connections whose Get has taken its lock and has its reply built
Getting == {c \in Conns : pc[c] = "send" /\ IsCmd(c, "Get")}

\* C1: after Set(k, v, expiry) has completed, a Get(k) that no eviction and
\* no other Set on k precedes replies v; and once a whole sweeper tick has
\* begun at or after the expiration instant of that Set's record, with no
\* other Set on k since, k is absent and a Get(k) replies the null bulk
\* string.
C1_ExpiryEventualConsistency ==
    /\ \A k \in expired : hist[k].op = "evict" /\ ~KvGet(kv, k).some
    /\ \A c \in Getting :
          /\ (snap[c].op = "set" /\ snap[c].rec)
                => reply[c] = BulkString(snap[c].val)
          /\ snap[c].op = "evict" => reply[c] = NullBulkString

\* a Get of k1 replies absent after a tick has seen k1's record due
C1_GetAfterExpiry ==
    /\ K1 \in expired
    /\ "c1" \in Getting
    /\ cmd["c1"].cmd.key = K1
    /\ snap["c1"].op = "evict"
    /\ reply["c1"] = NullBulkString

\* a Get of k1 replies v2 after SET k1 v2 PX 1 has pushed its record
C1_GetBeforeExpiry ==
    /\ "c1" \in Getting
    /\ snap["c1"] = [op |-> "set", val |-> V2, by |-> "c2", rec |-> TRUE]
    /\ reply["c1"] = BulkString(V2)

Replied(c, r) ==
    \/ pc[c] = "send" /\ out[c] = <<>> /\ reply[c] = r
    \/ pc[c] \in {"read", "closed"} /\ out[c] = <<r>>
    \/ pc[c] = "io_failed" /\ out[c] \in {<<>>, <<r>>}

\* connection c is inside kv::set or kv::get and has written nothing
InStore(c) == pc[c] \in {"set", "set_cron", "get", "get_locked"} /\ out[c] = <<>>

\* C3: a read that does not interpret as a command gets the Error reply and
\* the handler goes on reading; the handler ends only on a zero-byte read
\* or a socket failure.
C3_ErrorsNotFatal ==
    \A c \in Conns :
        /\ pc[c] # "aborted"
        /\ cmd[c].kind \notin {"Ok", "None"}
              => Replied(c, Error(<<"u", "n", "k", "n", "o", "w", "n", " ",
                                    "c", "o", "m", "m", "a", "n", "d">>))

\* SET k1 v1 PX x has ended the handler and no reply was written
C3_HandlerAborted ==
    /\ pc["c1"] = "aborted"
    /\ cmd["c1"] = CmdErr("Panic")
    /\ out["c1"] = <<>>

\* C7: each Ping, Echo, Get and Set gets exactly one reply before the next
\* read: Ping the simple string PONG, Echo(t) the bulk string t, Get(k) the
\* bulk string of the mapping's value for k or the null bulk string, Set the
\* simple string OK once the insert (and the push of its record) is done; a
\* Get on the connection whose Set inserted last, with no eviction since,
\* replies that Set's value.
C7_CommandReplies ==
    \A c \in Conns :
        /\ IsCmd(c, "Ping") => Replied(c, SimpleString(<<"P", "O", "N", "G">>))
        /\ IsCmd(c, "Echo") => Replied(c, BulkString(cmd[c].cmd.arg))
        /\ IsCmd(c, "Set") =>
              /\ InStore(c) \/ Replied(c, SimpleString(<<"O", "K">>))
              /\ (pc[c] = "send" /\ hist[cmd[c].cmd.key].by = c) =>
                    /\ hist[cmd[c].cmd.key].val = cmd[c].cmd.value
                    /\ hist[cmd[c].cmd.key].rec = cmd[c].cmd.expiry.some
                    /\ KvGet(kv, cmd[c].cmd.key) = SomeText(cmd[c].cmd.value)
        /\ IsCmd(c, "Get") =>
              \/ InStore(c)
              \/ Replied(c, NullBulkString)
              \/ \E v \in {V1, V2} : Replied(c, BulkString(v))
        /\ (c \in Getting /\ snap[c].op = "set" /\ snap[c].by = c)
              => reply[c] = BulkString(snap[c].val)
        /\ (c \in Getting /\ snap[c].op # "set") => reply[c] = NullBulkString

\* c1 reads back the value its own Set wrote
C7_ReadOwnWrite ==
    /\ "c1" \in Getting
    /\ snap["c1"] = [op |-> "set", val |-> V1, by |-> "c1", rec |-> FALSE]
    /\ reply["c1"] = BulkString(V1)

\* an Echo has been answered and the handler is reading again
C7_EchoAnswered ==
    /\ IsCmd("c2", "Echo")
    /\ pc["c2"] = "read"
    /\ out["c2"] = <<BulkString(<<"h", "i">>)>>

\* C8: ConfigGet(name) gets the array [SimpleString(name), BulkString(the
\* configured value)] when name is dir or dbfilename, and otherwise gets no
\* reply while the handler goes on reading.
C8_ConfigGetReply ==
    \A c \in Conns :
        IsCmd(c, "ConfigGet") =>
            LET name == cmd[c].cmd.key
            IN  IF name = <<"d", "i", "r">>
                THEN Replied(c, Array(<<SimpleString(name),
                                        BulkString(config.dir)>>))
                ELSE IF name = <<"d", "b", "f", "i", "l", "e", "n", "a", "m", "e">>
                THEN Replied(c, Array(<<SimpleString(name),
                                        BulkString(config.dbfilename)>>))
                ELSE out[c] = <<>> /\ pc[c] \in {"read", "closed", "io_failed"}

\* CONFIG get dbfilename has been answered with the configured file name
C8_DbfilenameAnswered ==
    /\ IsCmd("c1", "ConfigGet")
    /\ config = OtherConfig
    /\ pc["c1"] = "read"
    /\ out["c1"] = <<Array(<<SimpleString(W_dbfilename),
                             BulkString(<<"x", ".", "r", "d", "b">>)>>)>>

\* CONFIG GET DIR, a name that is not recognized, is left without a reply
C8_UnknownNameIgnored ==
    /\ IsCmd("c1", "ConfigGet")
    /\ cmd["c1"].cmd.key = <<"D", "I", "R">>
    /\ pc["c1"] = "read"
    /\ out["c1"] = <<>>

\* the elements of the array a read decodes to, <<>> when it is no array
ArrayRead(b) ==
    IF parse(b).kind = "Ok" /\ parse(b).val.t = "Array"
    THEN parse(b).val.items ELSE <<>>

\* the verb of an array, in upper case
VerbRead(arr) ==
    IF arr # <<>> /\ IsBulk(arr[1]) THEN to_ascii_uppercase(arr[1].s) ELSE <<>>

\* the element counts and kinds the four verbs are accepted with
AcceptedShape(arr) ==
    CASE VerbRead(arr) \in {W_ECHO, W_GET} -> Len(arr) = 2 /\ IsBulk(arr[2])
      [] VerbRead(arr) = W_SET ->
            Len(arr) >= 3 /\ IsBulk(arr[2]) /\ IsBulk(arr[3])
      [] VerbRead(arr) = W_CONFIG ->
            /\ Len(arr) = 3
            /\ IsBulk(arr[2])
            /\ IsBulk(arr[3])
            /\ to_ascii_uppercase(arr[2].s) = W_GET
      [] OTHER -> FALSE

\* C11: arity and argument kinds: an ECHO, GET, SET or CONFIG array yields
\* a command only in its accepted shape (ECHO and GET: 2 elements, the
\* second a bulk string; SET: at least 3 elements, elements 1 and 2 bulk
\* strings; CONFIG: 3 elements, element 1 the subcommand GET in any letter
\* case, element 2 a bulk string), and in every other shape fails with
\* InvalidInput and no command.
C11_ArityAndKinds ==
    (stage = "command"
        /\ VerbRead(ArrayRead(bytes)) \in {W_ECHO, W_GET, W_SET, W_CONFIG})
        => /\ command.kind = "Ok" => AcceptedShape(ArrayRead(bytes))
           /\ ~AcceptedShape(ArrayRead(bytes)) => command = CmdErr("InvalidInput")

\* ECHO without its argument, followed in the same read by a byte that is
\* not UTF-8, has aborted from_bytes
C11_ShapeErrorAborted ==
    /\ stage = "command"
    /\ bytes = as_bytes(Array(<<BulkString(W_ECHO)>>)) \o <<BadByte>>
    /\ command = CmdErr("Panic")

\* the option names that are PX in some letter case
PxNames == {<<"P", "X">>, <<"p", "x">>, <<"P", "x">>, <<"p", "X">>}

\* the unsigned integers the option values of OptionElems stand for
Millis == (<<"1">> :> 1) @@ (<<"0", "7">> :> 7) @@ (<<"0">> :> 0)

\* the places of arr, from index 3 on two at a time, that hold a pair of
\* bulk strings whose first is PX (arr is indexed from 1 here)
PxPairs(arr) ==
    {i \in 4..(Len(arr) - 1) :
        /\ i % 2 = 0
        /\ IsBulk(arr[i])
        /\ IsBulk(arr[i + 1])
        /\ arr[i].s \in PxNames}

LastOf(S) == CHOOSE i \in S : \A j \in S : j <= i

\* the expiry of the claim: the value paired with PX, of the last such
\* pair when there are several, absent when there is none
ExpiryOf(arr) ==
    IF PxPairs(arr) = {} THEN None
    ELSE Some(Millis[arr[LastOf(PxPairs(arr)) + 1].s])

\* C12: SET option scanning: for a SET array with a bulk-string key and
\* value whose PX option values are unsigned integers, the command is
\* Set(key, value, expiry), where expiry is the integer value paired with
\* an option named PX in any letter case among the pairs scanned two at a
\* time from index 3 on (the last such pair when there are several) and is
\* absent when there is no such pair; other pairs, a pair with an element
\* that is no bulk string and an odd last element change nothing.
C12_SetOptions ==
    (stage = "command"
        /\ VerbRead(ArrayRead(bytes)) = W_SET
        /\ AcceptedShape(ArrayRead(bytes))
        /\ \A i \in PxPairs(ArrayRead(bytes)) :
                ArrayRead(bytes)[i + 1].s \in DOMAIN Millis)
        => command = CmdOk(CommandSet(ArrayRead(bytes)[2].s,
                                      ArrayRead(bytes)[3].s,
                                      ExpiryOf(ArrayRead(bytes))))

\* SET k1 v1 EX 1 px 07 has been interpreted: the EX pair is ignored and
\* the expiry is 7
C12_PxAfterOtherOption ==
    /\ stage = "command"
    /\ bytes = as_bytes(Array(SetArray(
            <<BulkString(<<"E", "X">>), BulkString(<<"1">>),
              BulkString(<<"p", "x">>), BulkString(<<"0", "7">>)>>)))
    /\ command = CmdOk(CommandSet(K1, V1, Some(7)))

----------------------------------------------------------------------------
(* Properties of the store's operations (Spec, SpecStore)                  *)

\* the last Set on k carried no expiry and has returned
PlainSet(k) ==
    /\ hist[k].op = "set"
    /\ ~hist[k].rec
    /\ ~(pc[hist[k].by] = "set_cron" /\ cmd[hist[k].by].cmd.key = k)

\* this step is the sweeper's removal of a record for k
SweeperRemoves(k) ==
    /\ sweep.pc = "retain"
    /\ sweep.idx <= Len(cron)
    /\ cron[sweep.idx].key = k
    /\ Len(cron') < Len(cron)

\* C13: a Set does not cancel a pending expiration: the step in which a
\* Set inserts leaves every ledger record in place, so after Set(k, v1, px)
\* and Set(k, v2) the first Set's record is still in the ledger; the
\* sweeper, finding that record due, removes k from the mapping although
\* the last Set on k carried no expiry; and the Get that follows this
\* eviction replies absent.
C13_SetKeepsPendingExpiry ==
    /\ [][\A c \in Conns : (pc[c] = "set" /\ pc'[c] # "set") => cron' = cron]_vars
    /\ [][\A k \in Keys :
            (PlainSet(k) /\ SweeperRemoves(k))
                => /\ Due(sweep.now, cron[sweep.idx])
                   /\ ~KvGet(kv', k).some
                   /\ hist'[k].op = "evict"]_vars
    /\ [](\A c \in Getting : snap[c].op = "evict" => reply[c] = NullBulkString)

\* v1, which only SET k1 v1 without expiry writes, has been evicted on the
\* record of an earlier SET k1 v2 PX 1, and the Get of k1 replies absent
C13_PlainValueEvicted ==
    /\ "c1" \in Getting
    /\ cmd["c1"].cmd.key = K1
    /\ snap["c1"].op = "evict"
    /\ snap["c1"].val = V1
    /\ reply["c1"] = NullBulkString

\* connection c holds the mapping's lock
HoldsMapping(c) == kvLock.writer = c \/ c \in kvLock.readers

\* connection c is inside set at the acquisition of the ledger's lock
AtLedgerLock(c) == pc[c] = "set_cron"

\* the sweeper, holding the ledger's lock, is at a due record, whose removal
\* starts with the acquisition of the mapping's write lock
SweeperAtMappingLock ==
    /\ cronLock = Sweeper
    /\ sweep.pc = "retain"
    /\ sweep.idx <= Len(cron)
    /\ Due(sweep.now, cron[sweep.idx])

\* C14: locking discipline: in every reachable state no get, set or sweeper
\* tick holds one of the two locks while it acquires, waits for or holds
\* the other.
C14_LocksIndependent ==
    /\ \A c \in Conns : ~(HoldsMapping(c) /\ AtLedgerLock(c))
    /\ ~SweeperAtMappingLock

\* c1's set holds the mapping's write lock and waits for the ledger's lock,
\* which the sweeper holds
C14_SetWaitsHoldingMapping ==
    /\ AtLedgerLock("c1")
    /\ kvLock.writer = "c1"
    /\ cronLock = Sweeper

\* C17: deadlock freedom of the store: no reachable state has a set blocked
\* on the ledger's lock, holding the mapping's write lock, while the
\* sweeper, holding the ledger's lock, is blocked on the mapping's lock.
C17_NoCyclicWait ==
    \A c \in Conns :
        ~(AtLedgerLock(c) /\ kvLock.writer = c /\ SweeperAtMappingLock)

\* c2's set and the sweeper wait for each other, and c1's get waits for the
\* mapping's lock behind them
C17_SetAndSweeperBlocked ==
    /\ AtLedgerLock("c2")
    /\ kvLock.writer = "c2"
    /\ SweeperAtMappingLock
    /\ ~CanWrite(kvLock)
    /\ pc["c1"] = "get"
    /\ ~ENABLED SweepStep
    /\ ~ENABLED SetPush("c2")
    /\ ~ENABLED GetLock("c1")

\* C15: one command per read: each read of n > 0 bytes is interpreted as
\* one command's worth of input and gets at most one reply before the next
\* read; what follows the first complete command in the same read is not
\* executed (ECHO k2 followed by SET k2 v2 is Echo(k2) alone), and the
\* parts of a command split across two reads are interpreted each on its
\* own and not put together (neither part of SET k2 v2 is a command), so
\* k2 never holds v2.
C15_OneCommandPerRead ==
    /\ \A c \in Conns :
          /\ Len(out[c]) <= 1
          /\ cmd[c] \in {wire[r] : r \in DOMAIN wire} \cup {CmdErr("None")}
    /\ wire[TwoCommands] = CmdOk(CommandEcho(K2))
    /\ wire[SplitHead] = CmdErr("UnexpectedEOF")
    /\ wire[SplitTail] = CmdErr("InvalidInput")
    /\ KvGet(kv, K2) # SomeText(V2)
    /\ \A k \in Keys : hist[k].op = "set" => hist[k].val # V2 \/ k = K1

\* the read of ECHO k2 with SET k2 v2 behind it has been answered with the
\* echo alone, the handler reads again and k2 is absent
C15_SecondCommandDropped ==
    /\ IsCmd("c1", "Echo")
    /\ cmd["c1"].cmd.arg = K2
    /\ pc["c1"] = "read"
    /\ out["c1"] = <<BulkString(K2)>>
    /\ ~KvGet(kv, K2).some

\* C16: get is a pure lookup that ignores the ledger: the steps of get
\* change neither the mapping nor the ledger, and its result is the
\* mapping's current value for the key (absent when it holds none) whatever
\* records the ledger holds, so a key whose instant has passed is still
\* returned as long as no sweeper tick has removed it.
C16_GetIsPureLookup ==
    [][\A c \in Conns :
          (pc[c] \in {"get", "get_locked"} /\ pc'[c] # pc[c])
              => /\ kv' = kv
                 /\ cron' = cron
                 /\ pc[c] = "get_locked" =>
                       reply'[c] = IF cmd[c].cmd.key \in DOMAIN kv
                                   THEN BulkString(kv[cmd[c].cmd.key])
                                   ELSE NullBulkString]_vars

\* after SET k1 v1 PX 0, whose record is due from the start, the Get of k1
\* has replied v1 while the record is still in the ledger
C16_DueKeyReturned ==
    /\ "c1" \in Getting
    /\ cmd["c1"].cmd.key = K1
    /\ snap["c1"] = [op |-> "set", val |-> V1, by |-> "c1", rec |-> TRUE]
    /\ reply["c1"] = BulkString(V1)
    /\ \E i \in 1..Len(cron) : cron[i].key = K1 /\ cron[i].expiry <= clock

\* the number of records of the pre-tick ledger that retain has gone through
Scanned == (sweep.idx - 1) + (Len(sweep.pre) - Len(cron))

\* the records of a ledger whose instant is later than now, in their order
LaterThan(ledger, now) == SelectSeq(ledger, LAMBDA record : record.expiry > now)

\* this step is one of retain's closure
RetainStep ==
    /\ sweep.pc = "retain"
    /\ sweep'.idx # sweep.idx \/ cron' # cron

\* C18: sweeper tick post-condition: for a tick that observes now, of the
\* records it has gone through the ledger holds exactly those whose instant
\* is later than now, in their original order, followed by the records not
\* yet gone through, so when the tick ends the ledger is the pre-tick
\* records later than now; the step that removes a record removes its key
\* from the mapping; and no step of the tick changes the entry of a key
\* other than that of the record it removes.
C18_TickPostCondition ==
    /\ [](sweep.pc = "retain" =>
            /\ Scanned \in 0..Len(sweep.pre)
            /\ cron = LaterThan(SubSeq(sweep.pre, 1, Scanned), sweep.now)
                        \o SubSeq(sweep.pre, Scanned + 1, Len(sweep.pre)))
    /\ [][RetainStep =>
            \A k \in Keys :
                KvGet(kv', k) =
                    IF Len(cron') < Len(cron) /\ cron[sweep.idx].key = k
                    THEN NoText ELSE KvGet(kv, k)]_vars

\* a tick has gone through a ledger of two records for k1: the due one is
\* removed and k1 with it, the later one is kept, and k2 keeps its value
C18_OneRemovedOneKept ==
    /\ sweep.pc = "retain"
    /\ sweep.idx > Len(cron)
    /\ Len(sweep.pre) = 2
    /\ sweep.pre[1].expiry <= sweep.now
    /\ cron = <<sweep.pre[2]>>
    /\ ~KvGet(kv, K1).some
    /\ KvGet(kv, K2) = SomeText(V1)

\* C19: effect of set: set(k, v, e) makes the mapping hold v for k and
\* leaves the entry of every other key as it is; with an expiry it appends
\* exactly the record (k, now + e), now being the instant read after the
\* insert, to the end of the ledger and leaves the records before it,
\* earlier ones for k among them, unchanged and in order; without an expiry
\* it returns with the ledger unchanged.
C19_EffectOfSet ==
    /\ [][\A c \in Conns :
            /\ (pc[c] = "set" /\ pc'[c] # "set") =>
                  /\ \A k \in Keys :
                        KvGet(kv', k) =
                            IF k = cmd[c].cmd.key
                            THEN SomeText(cmd[c].cmd.value) ELSE KvGet(kv, k)
                  /\ cron' = cron
                  /\ IF cmd[c].cmd.expiry.some
                     THEN /\ pc'[c] = "set_cron"
                          /\ expiryAt'[c] = clock + cmd[c].cmd.expiry.v
                     ELSE pc'[c] = "send"
            /\ (pc[c] = "set_cron" /\ pc'[c] # "set_cron") =>
                  /\ cron' = cron \o <<[key |-> cmd[c].cmd.key,
                                         expiry |-> expiryAt[c]]>>
                  /\ kv' = kv
                  /\ pc'[c] = "send"]_vars
    /\ [](\A c \in Conns :
            pc[c] = "set_cron"
                => KvGet(kv, cmd[c].cmd.key) = SomeText(cmd[c].cmd.value))

\* SET k1 v2 PX 1 at instant 1 has returned: k1 holds v2, k2 still holds
\* v1, and its record (k1, 2) follows the earlier record (k1, 0)
C19_SecondRecordAppended ==
    /\ IsCmd("c1", "Set")
    /\ cmd["c1"].cmd = CommandSet(K1, V2, Some(1))
    /\ pc["c1"] = "send"
    /\ reply["c1"] = OkReply
    /\ cron = <<[key |-> K1, expiry |-> 0], [key |-> K1, expiry |-> 2]>>
    /\ KvGet(kv, K1) = SomeText(V2)
    /\ KvGet(kv, K2) = SomeText(V1)

----------------------------------------------------------------------------
(* Byte accounting of the codec (SpecCodec)                                *)

\* C20: exact byte accounting: for every value v whose texts hold no CR LF,
\* decoding as_bytes(v) yields v and consumes exactly Len(as_bytes(v))
\* bytes, so that v can be followed by a further element inside an
\* aggregate and parse(as_bytes(Array([v, w]))) is Array([v, w]).
C20_ExactByteAccounting ==
    (stage = "parsed" /\ value # NoValue) => parsed = Ok(value, Len(bytes))

\* the encoding of [BulkError(no), 1] has been decoded: the bulk error left
\* its terminator unread and the array is refused
C20_ElementAfterBulkError ==
    /\ stage = "parsed"
    /\ value = Array(<<BulkError(<<"n", "o">>), Integer(1)>>)
    /\ bytes = <<"*", "2">> \o CRLF \o <<"!", "2">> \o CRLF \o <<"n", "o">> \o CRLF
                  \o <<":", "1">> \o CRLF
    /\ parsed.kind = "InvalidInput"
    /\ parse_value(as_bytes(BulkError(<<"n", "o">>)), 0).pos = 6

\* C21: aggregate decoding: the encoding of an Array, a Set or a Map of n
\* elements (pairs for a Map) decodes to that aggregate with exactly these
\* n elements in input order; *-1 decodes to Null; and an input that ends
\* before the n elements announced are there fails with UnexpectedEOF.
C21_AggregateDecoding ==
    stage = "parsed" =>
        /\ value.t \in {"Array", "Set", "Map"} =>
              /\ parsed.kind = "Ok"
              /\ parsed.val.t = value.t
              /\ parsed.val.items = value.items
        /\ bytes = LegacyNullArray => parsed.kind = "Ok" /\ parsed.val = Null
        /\ bytes \in ShortAggregates => parsed.kind = "UnexpectedEOF"

\* the encoding of the set {True, 1} has been decoded, and refused
C21_SetAfterBooleanRefused ==
    /\ stage = "parsed"
    /\ value = Set(<<True, Integer(1)>>)
    /\ bytes = <<"~", "2">> \o CRLF \o <<"#", "t">> \o CRLF \o <<":", "1">> \o CRLF
    /\ parsed.kind = "InvalidInput"

\* the length line of an input that starts with '=', read by read_integer
VerbatimLength(b) == ReadInteger(b, 1)

\* the len bytes behind the length line
VerbatimBody(b) ==
    SubSeq(b, VerbatimLength(b).pos + 1, VerbatimLength(b).pos + VerbatimLength(b).val)

\* C22: verbatim string decoding: for =<len> followed by at least len
\* bytes the result is VerbatimString(first 3 bytes, bytes after the colon)
\* when the byte at offset 3 of the body is ':', and InvalidInput in every
\* other case, bodies shorter than 4 bytes included; when fewer than len
\* bytes remain the result is UnexpectedEOF.
C22_VerbatimDecoding ==
    (stage = "parsed"
        /\ bytes # <<>>
        /\ bytes[1] = "="
        /\ Utf8Valid(bytes)
        /\ VerbatimLength(bytes).kind = "Ok"
        /\ VerbatimLength(bytes).val >= 0)
        => IF Len(bytes) - VerbatimLength(bytes).pos < VerbatimLength(bytes).val
           THEN parsed.kind = "UnexpectedEOF"
           ELSE IF /\ VerbatimLength(bytes).val >= 4
                   /\ VerbatimBody(bytes)[4] = ":"
           THEN /\ parsed.kind = "Ok"
                /\ parsed.val =
                      VerbatimString(SubSeq(VerbatimBody(bytes), 1, 3),
                                     SubSeq(VerbatimBody(bytes), 5,
                                            Len(VerbatimBody(bytes))))
           ELSE parsed.kind = "InvalidInput"

\* =3 txt, a body of three bytes, has aborted the decoder
C22_ShortBodyAborted ==
    /\ stage = "parsed"
    /\ bytes = <<"=", "3">> \o CRLF \o <<"t", "x", "t">> \o CRLF
    /\ parsed.kind = "Panic"

----------------------------------------------------------------------------
(* Properties of the cursor (SpecCursor)                                   *)

\* the bytes of the buffer left at the position a call started from
Remaining == Len(bytes) - cursor.from

\* C23: read(n) returns the next n bytes and advances the position by n when
\* at least n bytes remain, and read_byte does the same for one byte; when
\* fewer bytes remain than requested they fail with UnexpectedEOF and leave
\* the position exactly where it was.  (A negative cursor.n is a count of
\* 2^64 + n, more than any buffer holds.)
C23_FixedLengthReads ==
    /\ (stage = "cursor" /\ cursor.call = "read") =>
          IF cursor.n >= 0 /\ Remaining >= cursor.n
          THEN /\ cursor.kind = "Ok"
               /\ cursor.val = SubSeq(bytes, cursor.from + 1,
                                      cursor.from + cursor.n)
               /\ cursor.position = cursor.from + cursor.n
          ELSE /\ cursor.kind = "UnexpectedEOF"
               /\ cursor.position = cursor.from
    /\ (stage = "cursor" /\ cursor.call = "read_byte") =>
          IF Remaining >= 1
          THEN /\ cursor.kind = "Ok"
               /\ cursor.val = bytes[cursor.from + 1]
               /\ cursor.position = cursor.from + 1
          ELSE /\ cursor.kind = "UnexpectedEOF"
               /\ cursor.position = cursor.from

\* read(usize::MAX) at position 1 of a 4-byte buffer has panicked
C23_HugeReadAborted ==
    /\ stage = "cursor"
    /\ Len(bytes) = 4
    /\ cursor.call = "read" /\ cursor.n = -1 /\ cursor.from = 1
    /\ cursor.kind = "Panic"

\* the offsets at or after the start of the call where a CR LF begins
Terminators ==
    {p \in cursor.from..(Len(bytes) - 2) :
        bytes[p + 1] = CR /\ bytes[p + 2] = LF}

FirstTerminator == CHOOSE p \in Terminators : \A q \in Terminators : p <= q

\* C24: from any position of any buffer, read_line returns the bytes from
\* the current position up to but excluding the first CR LF at or after that
\* position and moves the position just past that CR LF; when no CR LF
\* occurs at or after the position, including when the buffer is empty or
\* the position is already at its end, it fails with UnexpectedEOF.
C24_LineRead ==
    (stage = "cursor" /\ cursor.call = "read_line") =>
        IF Terminators # {}
        THEN /\ cursor.kind = "Ok"
             /\ cursor.val = SubSeq(bytes, cursor.from + 1, FirstTerminator)
             /\ cursor.position = FirstTerminator + 2
        ELSE cursor.kind = "UnexpectedEOF"

\* read_line on the empty buffer has panicked
C24_EmptyBufferAborted ==
    /\ stage = "cursor"
    /\ bytes = <<>>
    /\ cursor.call = "read_line"
    /\ cursor.kind = "Panic"

\* C25: a read_line or read_string that fails for lack of a terminator
\* leaves the position at the buffer's last index (length minus 1) when it
\* started below it, rather than at its starting position; and a
\* read_string or read_integer that fails on invalid content (bad UTF-8,
\* non-integer, empty or out-of-range integer text) leaves the position
\* just past the terminator of the line it consumed.
C25_NoBacktracking ==
    stage = "cursor" =>
        /\ (/\ cursor.call \in {"read_line", "read_string"}
            /\ cursor.kind = "UnexpectedEOF"
            /\ cursor.from < Len(bytes) - 1)
               => cursor.position = Len(bytes) - 1
        /\ (/\ cursor.call \in {"read_string", "read_integer"}
            /\ cursor.kind = "InvalidInput")
               => /\ Terminators # {}
                  /\ cursor.position = FirstTerminator + 2

\* read_string, started at position 1 of a 4-byte buffer without a
\* terminator, has failed and left the position at 3
C25_LeftAtLastIndex ==
    /\ stage = "cursor"
    /\ Len(bytes) = 4
    /\ cursor.call = "read_string" /\ cursor.from = 1
    /\ cursor.kind = "UnexpectedEOF"
    /\ cursor.position = 3

\* C27: after any sequence of read, read_byte, read_line, read_string and
\* read_integer calls that return (successfully or with an error) on a
\* cursor created at position 0, the position satisfies 0 <= position <=
\* length of the buffer, never decreases from one call to the next, and the
\* buffer itself is never modified.
C27_PositionInvariant ==
    /\ [](stage = "cursor" =>
            (cursor.kind # "Panic" =>
                cursor.position >= 0 /\ cursor.position <= Len(bytes)))
    /\ [][(stage = "cursor" /\ cursor'.kind # "Panic") =>
            /\ cursor'.position >= cursor.position
            /\ bytes' = bytes]_vars

\* three calls have returned on a 4-byte buffer, the last one a read_integer
\* that failed on its content and left the position at the end
C27_AfterFailedCalls ==
    /\ stage = "cursor"
    /\ Len(bytes) = 4
    /\ cursor.call = "read_integer" /\ cursor.kind = "InvalidInput"
    /\ cursor.from = 1 /\ cursor.position = 4

----------------------------------------------------------------------------
(* Length prefixes of the encoding (SpecCodec)                             *)

\* what a decoder reads back from the line after the type byte
PrefixRead(b) == ReadInteger(b, 1)

\* the digits of that line
PrefixText(b) == SubSeq(b, 2, PrefixRead(b).pos - 2)

\* everything after that line
AfterPrefix(b) == SubSeq(b, PrefixRead(b).pos + 1, Len(b))

Prefixed == {"BulkString", "BulkError", "VerbatimString", "Array", "Set", "Map"}

\* C26: as_bytes writes for BulkString and BulkError the byte length of the
\* payload, for VerbatimString the tag length plus 1 plus the payload
\* length, for Array and Set the number of elements and for Map the number
\* of pairs, each followed by CR LF and then the payload or the concatenated
\* element encodings in order; the prefix is plain decimal and equals the
\* count a decoder reads back.
C26_LengthPrefixes ==
    (stage = "bytes" /\ value # NoValue /\ value.t \in Prefixed) =>
        /\ PrefixRead(bytes).kind = "Ok"
        /\ IsDigits(PrefixText(bytes))
        /\ StripZeros(PrefixText(bytes)) = PrefixText(bytes)
        /\ value.t = "BulkString" =>
              /\ bytes[1] = "$"
              /\ PrefixRead(bytes).val = Len(value.s)
              /\ AfterPrefix(bytes) = value.s \o CRLF
        /\ value.t = "BulkError" =>
              /\ bytes[1] = "!"
              /\ PrefixRead(bytes).val = Len(value.s)
              /\ AfterPrefix(bytes) = value.s \o CRLF
        /\ value.t = "VerbatimString" =>
              /\ bytes[1] = "="
              /\ PrefixRead(bytes).val = Len(value.e) + 1 + Len(value.s)
              /\ AfterPrefix(bytes) = value.e \o <<":">> \o value.s \o CRLF
        /\ value.t = "Array" =>
              /\ bytes[1] = "*"
              /\ PrefixRead(bytes).val = Len(value.items)
              /\ AfterPrefix(bytes) = ConcatBytes(value.items)
        /\ value.t = "Set" =>
              /\ bytes[1] = "~"
              /\ PrefixRead(bytes).val = Len(value.items)
              /\ AfterPrefix(bytes) = ConcatBytes(value.items)
        /\ value.t = "Map" =>
              /\ bytes[1] = "%"
              /\ PrefixRead(bytes).val = Len(value.items)
              /\ AfterPrefix(bytes) = ConcatEntries(value.items)

\* the verbatim string txt:hi has been encoded with the prefix 6
C26_VerbatimPrefixWritten ==
    /\ stage = "bytes"
    /\ value = VerbatimString(<<"t", "x", "t">>, <<"h", "i">>)
    /\ bytes = <<"=", "6">> \o CRLF
                 \o <<"t", "x", "t", ":", "h", "i">> \o CRLF


====
